---- MODULE Spec2Model ----
(***************************************************************************)
(* Pin and class addressing of physical tiles (libarchfpga,                *)
(* physical_types_util.cpp).  The type registry is an immutable input: a   *)
(* physical tile with its sub-tiles, capacity ranges, ports and equivalent *)
(* logical block types.  Every translator is a pure function of the tile;  *)
(* it is an operator here, its loops unrolled as recursive operators that  *)
(* carry the loop's local accumulators.  An action applies one translator  *)
(* to arguments drawn from the tile's address spaces and records the       *)
(* outcome of the call.                                                    *)
(***************************************************************************)
EXTENDS Integers, Sequences, FiniteSets, TLC

VARIABLES tile, op, args, ret, threads

vars == <<tile, op, args, ret, threads>>

(***************************************************************************)
(* Bounds of the registries that are explored.                             *)
(***************************************************************************)
\* Largest tile whose ports are varied: root-level physical pins of the tile.
MaxPortPins == 5
\* Largest tile whose equivalent sites are varied: root-level physical pins of
\* the tile (t_physical_tile_type::num_pins).
MaxTilePins == 3
\* Largest tile: pin-graph pins summed over every (sub-tile, instance, block) unit.
MaxFlatPins == 6
\* Largest tile with named ports: root-level physical pins of the tile.
MaxNamedPins == 3
\* Largest tile whose ports need not tile the instances: root-level physical pins.
MaxLoosePins == 3
\* Largest tile whose direct pin maps are varied: root-level physical pins.
MaxDirectPins == 2
\* capacity slots of a tile of the compatibility registry
MaxCompatSlots == 3
\* root-level pins of a tile whose classes are named, and pins of such a class
MaxClassPins == 3
\* reader threads, and root-level pins of the tile they read
MaxThreads == 2
MaxThreadPins == 2

\* The "no value" marker of the architecture library.
OPEN == -1

(***************************************************************************)
(* The type registry.                                                      *)
(*                                                                         *)
(* A logical block type is identified by its descriptor:                   *)
(*   num_pins     pb_type->num_pins, the pins of the root pb graph node    *)
(*   num_pb_pins  pb_pin_idx_bimap.size(), every pin of the pin graph      *)
(*   num_classes  primitive_class_inf.size()                               *)
(* Root-level pins have the logical numbers 0 .. num_pins-1 (port's        *)
(* absolute_first_pin_index + pin_number), the internal pins the numbers   *)
(* num_pins .. num_pb_pins-1.                                              *)
(***************************************************************************)
RECURSIVE SumSeq(_)
SumSeq(s) == IF s = <<>> THEN 0 ELSE Head(s) + SumSeq(Tail(s))

\* Logical block types that fit a sub-tile instance of w pins within a budget
\* of pin-graph pins.  The classes of a block partition its primitive pins.
LogicalBlockTypes(w, budget) ==
    { [num_pins |-> r, num_pb_pins |-> r + i, num_classes |-> c] :
        <<r, i, c>> \in { x \in (1..w) \X (0..budget) \X (0..budget) :
                            /\ x[1] + x[2] <= budget
                            /\ x[3] <= x[2]
                            /\ (x[2] > 0 => x[3] > 0) } }

\* nullptr of t_logical_block_type_ptr
NoBlock == [num_pins |-> OPEN, num_pb_pins |-> OPEN, num_classes |-> OPEN]

\* Ordered lists of distinct equivalent sites whose pin graphs fit the budget.
RECURSIVE EquivalentSites(_, _, _)
EquivalentSites(w, budget, used) ==
    {<<>>} \cup
    UNION { { <<b>> \o rest : rest \in EquivalentSites(w, budget - b.num_pb_pins, used \cup {b}) } :
            b \in LogicalBlockTypes(w, budget) \ used }

\* Port widths of one sub-tile instance: the ordered ways to split n pins into ports.
RECURSIVE PortWidths(_)
PortWidths(n) ==
    IF n = 0 THEN {<<>>}
    ELSE UNION { { <<k>> \o rest : rest \in PortWidths(n - k) } : k \in 1..n }

\* t_physical_tile_port of a sub-tile: absolute_first_pin_index is cumulative.
PortsOf(widths) ==
    [ i \in 1..Len(widths) |->
        [index |-> i - 1,
         absolute_first_pin_index |-> SumSeq(SubSeq(widths, 1, i - 1)),
         num_pins |-> widths[i]] ]

\* Sub-tile descriptors (before their place in a tile is known): capacity total,
\* port widths of one instance, equivalent sites.  The pin locators read the
\* ports and never the equivalent sites; the translators by unit read the
\* equivalent sites and never the ports.  So the descriptors vary the ports
\* over one plain site (splitPorts), or the sites over one port.
PlainSite == [num_pins |-> 1, num_pb_pins |-> 1, num_classes |-> 0]

SubTileShapes(pinBudget, flatBudget, splitPorts) ==
    UNION { UNION { { [total |-> c, widths |-> ws, sites |-> es] :
                        ws \in IF splitPorts THEN PortWidths(w) ELSE {<<w>>},
                        es \in IF splitPorts THEN {<<PlainSite>>}
                               ELSE EquivalentSites(w, flatBudget \div c, {}) \ {<<>>} } :
                    w \in 1..(pinBudget \div c) } :
            c \in 1..pinBudget }

ShapePins(sh) == sh.total * SumSeq(sh.widths)
ShapeFlatPins(sh) == sh.total * SumSeq([i \in 1..Len(sh.sites) |-> sh.sites[i].num_pb_pins])

RECURSIVE TileShapes(_, _, _)
TileShapes(pinBudget, flatBudget, splitPorts) ==
    {<<>>} \cup
    UNION { { <<sh>> \o rest :
                rest \in TileShapes(pinBudget - ShapePins(sh),
                                    IF splitPorts THEN flatBudget
                                    ELSE flatBudget - ShapeFlatPins(sh), splitPorts) } :
            sh \in SubTileShapes(pinBudget, flatBudget, splitPorts) }

\* t_sub_tile number i (1-based position) of a tile built from shapes: capacity
\* ranges are consecutive over the sub-tiles, index is the position, and the
\* sub-tile's pins are consecutive tile pins.
SubTileOf(shapes, i) ==
    LET sh == shapes[i]
        low == SumSeq([j \in 1..(i - 1) |-> shapes[j].total])
        first == SumSeq([j \in 1..(i - 1) |-> ShapePins(shapes[j])])
    IN [index |-> i - 1,
        capacity |-> [low |-> low, high |-> low + sh.total - 1],
        num_phy_pins |-> ShapePins(sh),
        ports |-> PortsOf(sh.widths),
        equivalent_sites |-> sh.sites,
        sub_tile_to_tile_pin_indices |-> [p \in 1..ShapePins(sh) |-> first + p - 1]]

\* The direct pin map of an equivalent site that connects every root-level
\* logical pin to the sub-tile pin of the same number.
PlainDirects(logical_block) == [n \in 0..(logical_block.num_pins - 1) |-> n]

\* t_physical_tile_type.  tile_block_pin_directs_map is kept by sub-tile and
\* by the position of the logical block among the sub-tile's equivalent sites.
TileOf(shapes) ==
    [num_pins |-> SumSeq([j \in 1..Len(shapes) |-> ShapePins(shapes[j])]),
     sub_tiles |-> [i \in 1..Len(shapes) |-> SubTileOf(shapes, i)],
     tile_block_pin_directs_map |->
         [i \in 1..Len(shapes) |->
            [e \in 1..Len(shapes[i].sites) |-> PlainDirects(shapes[i].sites[e])]]]

\* the tiles the pin locators are applied to
PortTiles ==
    { TileOf(shapes) : shapes \in TileShapes(MaxPortPins, MaxPortPins, TRUE) \ {<<>>} }

\* the tiles the translators by unit are applied to
UnitTiles ==
    { TileOf(shapes) : shapes \in TileShapes(MaxTilePins, MaxFlatPins, FALSE) \ {<<>>} }


\* t_capacity_range::total and is_in_range
CapacityTotal(capacity) == capacity.high - capacity.low + 1
IsInRange(capacity, loc) == loc >= capacity.low /\ loc <= capacity.high

NumSubTiles(type) == Len(type.sub_tiles)

\* C++ integer division and remainder of non-negative operands
Div(a, b) == a \div b
Mod(a, b) == a % b

(***************************************************************************)
(* Tiles with names.  A port has a name and a direction; the tile has a    *)
(* name, its pin classes (class_inf: one class per port of every capacity  *)
(* instance, a DRIVER for an output port and a RECEIVER for an input port) *)
(* and the class of each pin (pin_class, OPEN for a pin of no class).      *)
(***************************************************************************)
\* Port names; two names differ in nothing but the case of a letter.
PortNames == {"a", "A"}

\* The names and directions a port is given.
PortKindSet ==
    { [name |-> "a", type |-> "IN_PORT"],
      [name |-> "a", type |-> "OUT_PORT"],
      [name |-> "A", type |-> "OUT_PORT"] }

\* Ordered ways to give each of n ports of one sub-tile a name and a direction.
\* The ports of one sub-tile have different names; the same name may be
\* declared again in another sub-tile.
RECURSIVE PortKinds(_)
PortKinds(n) ==
    IF n = 0 THEN {<<>>}
    ELSE UNION { { <<kind>> \o rest :
                     rest \in { r \in PortKinds(n - 1) :
                                  \A j \in 1..Len(r) : r[j].name # kind.name } } :
                 kind \in PortKindSet }

\* Ports that tile the pins of one instance, as PortsOf, with names.
NamedPortsOf(widths, kinds) ==
    [ i \in 1..Len(widths) |->
        [index |-> i - 1,
         name |-> kinds[i].name,
         type |-> kinds[i].type,
         absolute_first_pin_index |-> SumSeq(SubSeq(widths, 1, i - 1)),
         num_pins |-> widths[i]] ]

\* Ports of one instance of w pins that need not tile it: up to two ports,
\* each a range inside the instance; ranges may overlap or leave pins out.
LoosePortsOf(w) ==
    LET ranges == { r \in (0..(w - 1)) \X (1..w) : r[1] + r[2] <= w }
        port(i, r, nm) == [index |-> i, name |-> nm, type |-> "IN_PORT",
                           absolute_first_pin_index |-> r[1], num_pins |-> r[2]]
    IN {<<>>}
       \cup { <<port(0, r, "a")>> : r \in ranges }
       \cup { <<port(0, r1, "a"), port(1, r2, "A")>> : r1 \in ranges, r2 \in ranges }

\* Sub-tile descriptors with explicit ports; width is the pins of one instance.
NamedSubTileShapes(pinBudget, loose) ==
    UNION { UNION { { [total |-> c, widths |-> <<w>>, sites |-> <<PlainSite>>, ports |-> ps] :
                        ps \in IF loose THEN LoosePortsOf(w)
                               ELSE UNION { { NamedPortsOf(ws, ks) : ks \in PortKinds(Len(ws)) } :
                                            ws \in PortWidths(w) } } :
                    w \in 1..(pinBudget \div c) } :
            c \in 1..pinBudget }

RECURSIVE NamedTileShapes(_, _)
NamedTileShapes(pinBudget, loose) ==
    {<<>>} \cup
    UNION { { <<sh>> \o rest : rest \in NamedTileShapes(pinBudget - ShapePins(sh), loose) } :
            sh \in NamedSubTileShapes(pinBudget, loose) }

\* class_inf entries of one sub-tile: instance by instance, port by port
ClassesOfSubTile(sub_tile) ==
    LET np == Len(sub_tile.ports)
        w == sub_tile.num_phy_pins \div CapacityTotal(sub_tile.capacity)
    IN [ c \in 1..(CapacityTotal(sub_tile.capacity) * np) |->
           LET k == (c - 1) \div np
               port == sub_tile.ports[((c - 1) % np) + 1]
           IN [type |-> IF port.type = "OUT_PORT" THEN "DRIVER" ELSE "RECEIVER",
               num_pins |-> port.num_pins,
               pinlist |-> [q \in 1..port.num_pins |->
                              sub_tile.sub_tile_to_tile_pin_indices[
                                  k * w + port.absolute_first_pin_index + q]]] ]

RECURSIVE ClassesOfSubTiles(_)
ClassesOfSubTiles(sub_tiles) ==
    IF sub_tiles = <<>> THEN <<>>
    ELSE ClassesOfSubTile(Head(sub_tiles)) \o ClassesOfSubTiles(Tail(sub_tiles))

\* pin_class of a tile with the classes class_inf: per pin, the class that lists it
PinClassOf(num_pins, class_inf) ==
    [ p \in 1..num_pins |->
        LET owners == { c \in 1..Len(class_inf) :
                          \E q \in 1..class_inf[c].num_pins : class_inf[c].pinlist[q] = p - 1 }
        IN IF owners = {} THEN OPEN
           ELSE (CHOOSE c \in owners : \A d \in owners : c <= d) - 1 ]

\* t_physical_tile_type with a name, named ports and pin classes
NamedTileOf(name, shapes) ==
    LET base == TileOf(shapes)
        sub_tiles == [i \in 1..Len(shapes) |-> [base.sub_tiles[i] EXCEPT !.ports = shapes[i].ports]]
        class_inf == ClassesOfSubTiles(sub_tiles)
    IN [num_pins |-> base.num_pins,
        sub_tiles |-> sub_tiles,
        tile_block_pin_directs_map |-> base.tile_block_pin_directs_map,
        name |-> name,
        class_inf |-> class_inf,
        pin_class |-> PinClassOf(base.num_pins, class_inf)]

\* the tiles the lookups by name are applied to: ports tile every instance
NamedTiles ==
    { NamedTileOf("T", shapes) : shapes \in NamedTileShapes(MaxNamedPins, FALSE) \ {<<>>} }

\* tiles whose ports need not tile the instances
LooseTiles ==
    { NamedTileOf("T", shapes) : shapes \in NamedTileShapes(MaxLoosePins, TRUE) \ {<<>>} }

\* The tile CLOCK_TILE: one sub-tile (BUFG) of capacity [0,3] with the single
\* port clk_in of width 1.
CLOCK_TILE ==
    NamedTileOf("CLOCK_TILE",
                <<[total |-> 4, widths |-> <<1>>, sites |-> <<PlainSite>>,
                   ports |-> NamedPortsOf(<<1>>, <<[name |-> "clk_in", type |-> "IN_PORT"]>>)]>>)

\* The tiles of two sub-tiles with 6 and 4 root-level pins: every capacity
\* that divides the pins, one port over each instance.
SixFourTiles ==
    { NamedTileOf("T",
                  <<[total |-> c1, widths |-> <<6 \div c1>>, sites |-> <<PlainSite>>,
                     ports |-> NamedPortsOf(<<6 \div c1>>, <<[name |-> "a", type |-> "IN_PORT"]>>)],
                    [total |-> c2, widths |-> <<4 \div c2>>, sites |-> <<PlainSite>>,
                     ports |-> NamedPortsOf(<<4 \div c2>>, <<[name |-> "A", type |-> "OUT_PORT"]>>)]>>) :
        c1 \in {1, 2, 3, 6}, c2 \in {1, 2, 4} }

(***************************************************************************)
(* Tiles whose direct pin maps are varied: the map of an equivalent site   *)
(* sends some of the block's root-level pins, each to its own pin of one   *)
(* sub-tile instance; a root-level pin may have no entry.                  *)
(***************************************************************************)
\* the one-to-one maps from some of the logical pins 0..n-1 to sub-tile pins 0..w-1
DirectMaps(n, w) ==
    UNION { { m \in [D -> 0..(w - 1)] : \A x, y \in D : m[x] = m[y] => x = y } :
            D \in SUBSET (0..(n - 1)) }

RECURSIVE SiteDirects(_, _)
SiteDirects(sites, w) ==
    IF sites = <<>> THEN {<<>>}
    ELSE { <<m>> \o rest : m \in DirectMaps(Head(sites).num_pins, w),
                           rest \in SiteDirects(Tail(sites), w) }

RECURSIVE TileDirects(_)
TileDirects(sub_tiles) ==
    IF sub_tiles = <<>> THEN {<<>>}
    ELSE LET st == Head(sub_tiles)
         IN { <<d>> \o rest :
                d \in SiteDirects(st.equivalent_sites,
                                  st.num_phy_pins \div CapacityTotal(st.capacity)),
                rest \in TileDirects(Tail(sub_tiles)) }

DirectTiles ==
    UNION { { [base EXCEPT !.tile_block_pin_directs_map = d] : d \in TileDirects(base.sub_tiles) } :
            base \in { TileOf(shapes) :
                         shapes \in TileShapes(MaxDirectPins, MaxDirectPins + 1, FALSE) \ {<<>>} } }

\* Tiles of a one-instance sub-tile followed by a sub-tile of two instances whose
\* block is not a site of the first, with every direct pin map of the two blocks.
TwoInstanceSite == [num_pins |-> 1, num_pb_pins |-> 2, num_classes |-> 0]

TwoInstanceDirectTiles ==
    LET base == TileOf(<<[total |-> 1, widths |-> <<1>>, sites |-> <<PlainSite>>],
                         [total |-> 2, widths |-> <<1>>, sites |-> <<TwoInstanceSite>>]>>)
    IN { [base EXCEPT !.tile_block_pin_directs_map = d] : d \in TileDirects(base.sub_tiles) }

(***************************************************************************)
(* Tiles whose class table is varied: one class that lists any pins of the *)
(* tile in any order, a pin possibly more than once.  The ports tile every *)
(* instance and are inputs.                                                *)
(***************************************************************************)
RECURSIVE PinLists(_, _)
PinLists(pins, len) ==
    IF len = 0 THEN {<<>>}
    ELSE PinLists(pins, len - 1)
         \cup { <<p>> \o rest : p \in pins, rest \in { l \in PinLists(pins, len - 1) : Len(l) = len - 1 } }

InputShapes(pinBudget) ==
    { shapes \in NamedTileShapes(pinBudget, FALSE) \ {<<>>} :
        \A i \in 1..Len(shapes) : \A j \in 1..Len(shapes[i].ports) :
            shapes[i].ports[j].type = "IN_PORT" }

ClassTileOf(base, pinlist) ==
    LET class_inf == <<[type |-> "RECEIVER", num_pins |-> Len(pinlist), pinlist |-> pinlist]>>
    IN [base EXCEPT !.class_inf = class_inf,
                    !.pin_class = PinClassOf(base.num_pins, class_inf)]

ClassTiles ==
    UNION { { ClassTileOf(NamedTileOf("T", shapes), pinlist) :
                pinlist \in PinLists(0..(TileOf(shapes).num_pins - 1), MaxClassPins) \ {<<>>} } :
            shapes \in InputShapes(MaxClassPins) }

(***************************************************************************)
(* The registry of the compatibility queries.  A tile or a block is known  *)
(* by its name (the code compares pointers).  A block's equivalent_tiles   *)
(* lists the tile under query, T, exactly when a sub-tile of T lists the   *)
(* block; another tile, U, may be listed as well.                          *)
(***************************************************************************)
CompatBlockNames == {"x", "y"}

\* the sequences of capacity totals of the sub-tiles, at most slots in all
RECURSIVE CompatCapacities(_)
CompatCapacities(slots) ==
    {<<>>} \cup
    UNION { { <<c>> \o rest : rest \in CompatCapacities(slots - c) } : c \in 1..slots }

CompatSiteNames == { <<"x">>, <<"y">>, <<"x", "y">>, <<"y", "x">> }

CompatTileOf(caps, sites, tiles_of) ==
    [name |-> "T",
     sub_tiles |->
        [ i \in 1..Len(caps) |->
            [index |-> i - 1,
             capacity |-> [low |-> SumSeq(SubSeq(caps, 1, i - 1)),
                           high |-> SumSeq(SubSeq(caps, 1, i)) - 1],
             equivalent_sites |->
                [ e \in 1..Len(sites[i]) |->
                    [name |-> sites[i][e], equivalent_tiles |-> tiles_of[sites[i][e]]] ] ] ] ]

CompatTiles ==
    UNION { UNION { { CompatTileOf(caps, sites, tiles_of) :
                        tiles_of \in [CompatBlockNames -> { <<"T">>, <<"U", "T">> }] } :
                    sites \in [1..Len(caps) -> CompatSiteNames] } :
            caps \in CompatCapacities(MaxCompatSlots) \ {<<>>} }

\* the tiles the reader threads are run on
ThreadTiles ==
    { TileOf(shapes) : shapes \in TileShapes(MaxThreadPins, MaxThreadPins, FALSE) \ {<<>>} }

PhysicalTileTypes ==
    PortTiles \cup UnitTiles \cup NamedTiles \cup LooseTiles \cup {CLOCK_TILE} \cup SixFourTiles
    \cup DirectTiles \cup CompatTiles \cup ClassTiles
    \cup ThreadTiles \cup TwoInstanceDirectTiles

(***************************************************************************)
(* Outcomes of a call.                                                     *)
(***************************************************************************)
Ok(v) == [status |-> "ok", val |-> v, blk |-> NoBlock]
OkBlock(b) == [status |-> "ok", val |-> <<>>, blk |-> b]
\* archfpga_throw
Fatal == [status |-> "fatal", val |-> <<>>, blk |-> NoBlock]
\* VTR_ASSERT failure
AssertFail == [status |-> "assert", val |-> <<>>, blk |-> NoBlock]
NoCall == [status |-> "none", val |-> <<>>, blk |-> NoBlock]

(***************************************************************************)
(* get_pin_index_for_inst: (inst_index, inst_num, sub_tile.index)          *)
(***************************************************************************)
\* A variant that forgets the pin offset of the owning sub-tile.
RECURSIVE get_pin_index_for_inst_loop_no_offset(_, _, _, _, _)
get_pin_index_for_inst_loop_no_offset(type, pin_index, i, total_pin_counts, pin_offset) ==
    IF i > NumSubTiles(type) THEN Fatal
    ELSE LET sub_tile == type.sub_tiles[i]
             total == total_pin_counts + sub_tile.num_phy_pins
         IN IF pin_index < total
            THEN LET pins_per_inst == Div(sub_tile.num_phy_pins, CapacityTotal(sub_tile.capacity))
                 IN Ok(<<Mod(pin_index, pins_per_inst), Div(pin_index, pins_per_inst), sub_tile.index>>)
            ELSE get_pin_index_for_inst_loop_no_offset(type, pin_index, i + 1, total,
                                                       pin_offset + sub_tile.num_phy_pins)

\* A variant that takes the remainder for the instance and the quotient for the index.
RECURSIVE get_pin_index_for_inst_loop_swapped(_, _, _, _, _)
get_pin_index_for_inst_loop_swapped(type, pin_index, i, total_pin_counts, pin_offset) ==
    IF i > NumSubTiles(type) THEN Fatal
    ELSE LET sub_tile == type.sub_tiles[i]
             total == total_pin_counts + sub_tile.num_phy_pins
         IN IF pin_index < total
            THEN LET pins_per_inst == Div(sub_tile.num_phy_pins, CapacityTotal(sub_tile.capacity))
                     inst_num == Mod(pin_index - pin_offset, pins_per_inst)
                     inst_index == Div(pin_index - pin_offset, pins_per_inst)
                 IN Ok(<<inst_index, inst_num, sub_tile.index>>)
            ELSE get_pin_index_for_inst_loop_swapped(type, pin_index, i + 1, total,
                                                     pin_offset + sub_tile.num_phy_pins)

RECURSIVE get_pin_index_for_inst_loop(_, _, _, _, _)
get_pin_index_for_inst_loop(type, pin_index, i, total_pin_counts, pin_offset) ==
    IF i > NumSubTiles(type) THEN Fatal
    ELSE LET sub_tile == type.sub_tiles[i]
             total == total_pin_counts + sub_tile.num_phy_pins
         IN IF pin_index < total
            THEN LET pins_per_inst == Div(sub_tile.num_phy_pins, CapacityTotal(sub_tile.capacity))
                     inst_num == Div(pin_index - pin_offset, pins_per_inst)
                     inst_index == Mod(pin_index - pin_offset, pins_per_inst)
                 IN Ok(<<inst_index, inst_num, sub_tile.index>>)
            ELSE get_pin_index_for_inst_loop(type, pin_index, i + 1, total,
                                             pin_offset + sub_tile.num_phy_pins)

\* The function as built without assertions (VTR_ASSERT compiled out).
get_pin_index_for_inst_unchecked(type, pin_index) ==
    get_pin_index_for_inst_loop(type, pin_index, 1, 0, 0)

\* A variant that wraps a pin index past the last pin around to the first pins.
get_pin_index_for_inst_wrapping(type, pin_index) ==
    get_pin_index_for_inst_loop(type, Mod(pin_index, type.num_pins), 1, 0, 0)

get_pin_index_for_inst(type, pin_index) ==
    IF ~(pin_index < type.num_pins) THEN AssertFail
    ELSE get_pin_index_for_inst_loop(type, pin_index, 1, 0, 0)

(***************************************************************************)
(* block_type_pin_index_to_pin_inst:                                       *)
(*   (sub_tile_index, capacity_instance, port_index, pin_index_in_port)    *)
(***************************************************************************)
\* A variant that fails to resolve a pin unless the first port declared holds it.
RECURSIVE pin_inst_port_loop_first_only(_, _, _, _, _)
pin_inst_port_loop_first_only(ports, pin_index, i, sub_tile_index, inst_num) ==
    IF i > Len(ports) \/ i > 1 THEN <<sub_tile_index, inst_num, OPEN, OPEN>>
    ELSE LET port == ports[i]
         IN IF /\ pin_index >= port.absolute_first_pin_index
               /\ pin_index < port.absolute_first_pin_index + port.num_pins
            THEN <<sub_tile_index, inst_num, port.index, pin_index - port.absolute_first_pin_index>>
            ELSE pin_inst_port_loop_first_only(ports, pin_index, i + 1, sub_tile_index, inst_num)

RECURSIVE pin_inst_port_loop(_, _, _, _, _)
pin_inst_port_loop(ports, pin_index, i, sub_tile_index, inst_num) ==
    IF i > Len(ports) THEN <<sub_tile_index, inst_num, OPEN, OPEN>>
    ELSE LET port == ports[i]
         IN IF /\ pin_index >= port.absolute_first_pin_index
               /\ pin_index < port.absolute_first_pin_index + port.num_pins
            THEN <<sub_tile_index, inst_num, port.index, pin_index - port.absolute_first_pin_index>>
            ELSE pin_inst_port_loop(ports, pin_index, i + 1, sub_tile_index, inst_num)

block_type_pin_index_to_pin_inst(type, pin_index) ==
    LET r == get_pin_index_for_inst(type, pin_index)
    IN IF r.status # "ok" THEN r
       ELSE LET sub_tile_index == r.val[3]
                inst_num == r.val[2]
            IN Ok(pin_inst_port_loop(type.sub_tiles[sub_tile_index + 1].ports,
                                     r.val[1], 1, sub_tile_index, inst_num))

(***************************************************************************)
(* get_capacity_location_from_physical_pin: (capacity location, rel_pin)   *)
(***************************************************************************)
RECURSIVE capacity_location_loop(_, _, _, _)
capacity_location_loop(physical_tile, pin, i, pins_to_remove) ==
    IF i > NumSubTiles(physical_tile) THEN Fatal
    ELSE LET sub_tile == physical_tile.sub_tiles[i]
             capacity == sub_tile.capacity
             sub_tile_num_pins == sub_tile.num_phy_pins
             sub_tile_pin == pin - pins_to_remove
         IN IF sub_tile_pin < sub_tile_num_pins
            THEN LET per_inst == Div(sub_tile_num_pins, CapacityTotal(capacity))
                     rel_capacity == Div(sub_tile_pin, per_inst)
                     rel_pin == Mod(sub_tile_pin, per_inst)
                 IN Ok(<<rel_capacity + capacity.low, rel_pin>>)
            ELSE capacity_location_loop(physical_tile, pin, i + 1,
                                        pins_to_remove + sub_tile_num_pins)

get_capacity_location_from_physical_pin(physical_tile, pin) ==
    capacity_location_loop(physical_tile, pin, 1, 0)

(***************************************************************************)
(* get_physical_pin_from_capacity_location                                 *)
(***************************************************************************)
\* A variant that takes the capacity location for the relative capacity.
RECURSIVE physical_pin_loop_absolute_capacity(_, _, _, _, _)
physical_pin_loop_absolute_capacity(physical_tile, relative_pin, capacity_location, i, pins_to_add) ==
    IF i > NumSubTiles(physical_tile) THEN Fatal
    ELSE LET sub_tile == physical_tile.sub_tiles[i]
             capacity == sub_tile.capacity
             num_inst_pins == Div(sub_tile.num_phy_pins, CapacityTotal(capacity))
         IN IF IsInRange(capacity, capacity_location)
            THEN Ok(<<pins_to_add + num_inst_pins * capacity_location + relative_pin>>)
            ELSE physical_pin_loop_absolute_capacity(physical_tile, relative_pin,
                                                     capacity_location, i + 1,
                                                     pins_to_add + sub_tile.num_phy_pins)

\* A variant that answers a pin past the last sub-tile when no sub-tile spans the location.
RECURSIVE physical_pin_loop_past_the_end(_, _, _, _, _)
physical_pin_loop_past_the_end(physical_tile, relative_pin, capacity_location, i, pins_to_add) ==
    IF i > NumSubTiles(physical_tile) THEN Ok(<<pins_to_add + relative_pin>>)
    ELSE LET sub_tile == physical_tile.sub_tiles[i]
             capacity == sub_tile.capacity
             rel_capacity == capacity_location - capacity.low
             num_inst_pins == Div(sub_tile.num_phy_pins, CapacityTotal(capacity))
         IN IF IsInRange(capacity, capacity_location)
            THEN Ok(<<pins_to_add + num_inst_pins * rel_capacity + relative_pin>>)
            ELSE physical_pin_loop_past_the_end(physical_tile, relative_pin, capacity_location,
                                                i + 1, pins_to_add + sub_tile.num_phy_pins)

RECURSIVE physical_pin_loop(_, _, _, _, _)
physical_pin_loop(physical_tile, relative_pin, capacity_location, i, pins_to_add) ==
    IF i > NumSubTiles(physical_tile) THEN Fatal
    ELSE LET sub_tile == physical_tile.sub_tiles[i]
             capacity == sub_tile.capacity
             rel_capacity == capacity_location - capacity.low
             num_inst_pins == Div(sub_tile.num_phy_pins, CapacityTotal(capacity))
         IN IF IsInRange(capacity, capacity_location)
            THEN Ok(<<pins_to_add + num_inst_pins * rel_capacity + relative_pin>>)
            ELSE physical_pin_loop(physical_tile, relative_pin, capacity_location, i + 1,
                                   pins_to_add + sub_tile.num_phy_pins)

get_physical_pin_from_capacity_location(physical_tile, relative_pin, capacity_location) ==
    physical_pin_loop(physical_tile, relative_pin, capacity_location, 1, 0)

(***************************************************************************)
(* Sub-tiles are passed by address; an address is the sub-tile's position  *)
(* in physical_tile->sub_tiles (0-based), nullptr is OPEN.                 *)
(***************************************************************************)
nullptr == OPEN

SubTileAt(physical_tile, sub_tile) == physical_tile.sub_tiles[sub_tile + 1]

(***************************************************************************)
(* get_primitives_class_physical_num; -1 when the unit is not in the tile  *)
(***************************************************************************)
\* A variant that returns the unit's first class number for every logical class.
RECURSIVE primitives_class_loop_unit_start(_, _, _, _, _, _, _, _, _)
primitives_class_loop_unit_start(physical_tile, curr_sub_tile, curr_logical_block, curr_relative_cap, logical_primitive_class_num, i, sub_tile_cap, e, num_seen_primitive_class) ==
    IF i > NumSubTiles(physical_tile) THEN -1
    ELSE LET sub_tile == physical_tile.sub_tiles[i]
         IN IF ~(sub_tile_cap < CapacityTotal(sub_tile.capacity))
            THEN primitives_class_loop_unit_start(physical_tile, curr_sub_tile, curr_logical_block,
                                                  curr_relative_cap, logical_primitive_class_num,
                                                  i + 1, 0, 1, num_seen_primitive_class)
            ELSE IF e > Len(sub_tile.equivalent_sites)
            THEN primitives_class_loop_unit_start(physical_tile, curr_sub_tile, curr_logical_block,
                                                  curr_relative_cap, logical_primitive_class_num,
                                                  i, sub_tile_cap + 1, 1, num_seen_primitive_class)
            ELSE LET eq_site == sub_tile.equivalent_sites[e]
                 IN IF /\ i - 1 = curr_sub_tile
                       /\ eq_site = curr_logical_block
                       /\ curr_relative_cap = sub_tile_cap
                    THEN num_seen_primitive_class
                    ELSE primitives_class_loop_unit_start(physical_tile, curr_sub_tile,
                                                          curr_logical_block, curr_relative_cap,
                                                          logical_primitive_class_num,
                                                          i, sub_tile_cap, e + 1,
                                                          num_seen_primitive_class + eq_site.num_classes)

\* A variant that takes the block in whatever sub-tile lists it first.
RECURSIVE primitives_class_loop_any_sub_tile(_, _, _, _, _, _, _, _, _)
primitives_class_loop_any_sub_tile(physical_tile, curr_sub_tile, curr_logical_block, curr_relative_cap, logical_primitive_class_num, i, sub_tile_cap, e, num_seen_primitive_class) ==
    IF i > NumSubTiles(physical_tile) THEN -1
    ELSE LET sub_tile == physical_tile.sub_tiles[i]
         IN IF ~(sub_tile_cap < CapacityTotal(sub_tile.capacity))
            THEN primitives_class_loop_any_sub_tile(physical_tile, curr_sub_tile, curr_logical_block,
                                                    curr_relative_cap, logical_primitive_class_num,
                                                    i + 1, 0, 1, num_seen_primitive_class)
            ELSE IF e > Len(sub_tile.equivalent_sites)
            THEN primitives_class_loop_any_sub_tile(physical_tile, curr_sub_tile, curr_logical_block,
                                                    curr_relative_cap, logical_primitive_class_num,
                                                    i, sub_tile_cap + 1, 1, num_seen_primitive_class)
            ELSE LET eq_site == sub_tile.equivalent_sites[e]
                 IN IF /\ eq_site = curr_logical_block
                       /\ curr_relative_cap = sub_tile_cap
                    THEN num_seen_primitive_class + logical_primitive_class_num
                    ELSE primitives_class_loop_any_sub_tile(physical_tile, curr_sub_tile,
                                                            curr_logical_block, curr_relative_cap,
                                                            logical_primitive_class_num,
                                                            i, sub_tile_cap, e + 1,
                                                            num_seen_primitive_class + eq_site.num_classes)

RECURSIVE primitives_class_loop(_, _, _, _, _, _, _, _, _)
primitives_class_loop(physical_tile, curr_sub_tile, curr_logical_block, curr_relative_cap, logical_primitive_class_num, i, sub_tile_cap, e, num_seen_primitive_class) ==
    IF i > NumSubTiles(physical_tile) THEN -1
    ELSE LET sub_tile == physical_tile.sub_tiles[i]
         IN IF ~(sub_tile_cap < CapacityTotal(sub_tile.capacity))
            THEN primitives_class_loop(physical_tile, curr_sub_tile, curr_logical_block,
                                       curr_relative_cap, logical_primitive_class_num,
                                       i + 1, 0, 1, num_seen_primitive_class)
            ELSE IF e > Len(sub_tile.equivalent_sites)
            THEN primitives_class_loop(physical_tile, curr_sub_tile, curr_logical_block,
                                       curr_relative_cap, logical_primitive_class_num,
                                       i, sub_tile_cap + 1, 1, num_seen_primitive_class)
            ELSE LET eq_site == sub_tile.equivalent_sites[e]
                 IN IF /\ i - 1 = curr_sub_tile
                       /\ eq_site = curr_logical_block
                       /\ curr_relative_cap = sub_tile_cap
                    THEN num_seen_primitive_class + logical_primitive_class_num
                    ELSE primitives_class_loop(physical_tile, curr_sub_tile, curr_logical_block,
                                               curr_relative_cap, logical_primitive_class_num,
                                               i, sub_tile_cap, e + 1,
                                               num_seen_primitive_class + eq_site.num_classes)

get_primitives_class_physical_num(physical_tile, curr_sub_tile, curr_logical_block, curr_relative_cap, logical_primitive_class_num) ==
    primitives_class_loop(physical_tile, curr_sub_tile, curr_logical_block, curr_relative_cap,
                          logical_primitive_class_num, 1, 0, 1, 0)

(***************************************************************************)
(* get_tile_num_primitive_classes                                          *)
(***************************************************************************)
SitesClasses(sub_tile) ==
    SumSeq([e \in 1..Len(sub_tile.equivalent_sites) |-> sub_tile.equivalent_sites[e].num_classes])

get_tile_num_primitive_classes(physical_tile) ==
    SumSeq([i \in 1..NumSubTiles(physical_tile) |->
              SumSeq([e \in 1..Len(physical_tile.sub_tiles[i].equivalent_sites) |->
                        physical_tile.sub_tiles[i].equivalent_sites[e].num_classes
                        * CapacityTotal(physical_tile.sub_tiles[i].capacity)])])

(***************************************************************************)
(* get_sub_tile_from_class_physical_num; nullptr when no sub-tile owns it  *)
(***************************************************************************)
RECURSIVE sub_tile_from_class_loop(_, _, _)
sub_tile_from_class_loop(physical_tile, physical_class_num, i) ==
    IF i > NumSubTiles(physical_tile) THEN nullptr
    ELSE LET sub_tile == physical_tile.sub_tiles[i]
             start_physical_class_num ==
                 get_primitives_class_physical_num(physical_tile, i - 1,
                                                   sub_tile.equivalent_sites[1], 0, 0)
             end_physical_class_num ==
                 start_physical_class_num
                 + CapacityTotal(sub_tile.capacity) * SitesClasses(sub_tile)
         IN IF /\ physical_class_num >= start_physical_class_num
               /\ physical_class_num < end_physical_class_num
            THEN i - 1
            ELSE sub_tile_from_class_loop(physical_tile, physical_class_num, i + 1)

get_sub_tile_from_class_physical_num(physical_tile, physical_class_num) ==
    sub_tile_from_class_loop(physical_tile, physical_class_num, 1)

(***************************************************************************)
(* get_sub_tile_cap_from_class_physical_num; -1 when no instance owns it   *)
(***************************************************************************)
\* A variant whose instance range ends after the first equivalent site.
RECURSIVE sub_tile_cap_from_class_loop_first_site(_, _, _, _)
sub_tile_cap_from_class_loop_first_site(physical_tile, physical_class_num, i, sub_tile_cap) ==
    IF i > NumSubTiles(physical_tile) THEN -1
    ELSE LET sub_tile == physical_tile.sub_tiles[i]
         IN IF ~(sub_tile_cap < CapacityTotal(sub_tile.capacity))
            THEN sub_tile_cap_from_class_loop_first_site(physical_tile, physical_class_num, i + 1, 0)
            ELSE LET start_physical_class_num ==
                         get_primitives_class_physical_num(physical_tile, i - 1,
                                                           sub_tile.equivalent_sites[1],
                                                           sub_tile_cap, 0)
                     end_physical_class_num ==
                         start_physical_class_num + sub_tile.equivalent_sites[1].num_classes
                 IN IF /\ physical_class_num >= start_physical_class_num
                       /\ physical_class_num < end_physical_class_num
                    THEN sub_tile_cap
                    ELSE sub_tile_cap_from_class_loop_first_site(physical_tile, physical_class_num,
                                                                 i, sub_tile_cap + 1)

RECURSIVE sub_tile_cap_from_class_loop(_, _, _, _)
sub_tile_cap_from_class_loop(physical_tile, physical_class_num, i, sub_tile_cap) ==
    IF i > NumSubTiles(physical_tile) THEN -1
    ELSE LET sub_tile == physical_tile.sub_tiles[i]
         IN IF ~(sub_tile_cap < CapacityTotal(sub_tile.capacity))
            THEN sub_tile_cap_from_class_loop(physical_tile, physical_class_num, i + 1, 0)
            ELSE LET start_physical_class_num ==
                         get_primitives_class_physical_num(physical_tile, i - 1,
                                                           sub_tile.equivalent_sites[1],
                                                           sub_tile_cap, 0)
                     end_physical_class_num == start_physical_class_num + SitesClasses(sub_tile)
                 IN IF /\ physical_class_num >= start_physical_class_num
                       /\ physical_class_num < end_physical_class_num
                    THEN sub_tile_cap
                    ELSE sub_tile_cap_from_class_loop(physical_tile, physical_class_num,
                                                      i, sub_tile_cap + 1)

get_sub_tile_cap_from_class_physical_num(physical_tile, physical_class_num) ==
    sub_tile_cap_from_class_loop(physical_tile, physical_class_num, 1, 0)

(***************************************************************************)
(* get_logical_block_from_class_physical_num; nullptr (NoBlock) when none  *)
(***************************************************************************)
RECURSIVE logical_block_from_class_loop(_, _, _, _, _)
logical_block_from_class_loop(physical_tile, physical_class_num, i, sub_tile_cap, e) ==
    IF i > NumSubTiles(physical_tile) THEN NoBlock
    ELSE LET sub_tile == physical_tile.sub_tiles[i]
         IN IF ~(sub_tile_cap < CapacityTotal(sub_tile.capacity))
            THEN logical_block_from_class_loop(physical_tile, physical_class_num, i + 1, 0, 1)
            ELSE IF e > Len(sub_tile.equivalent_sites)
            THEN logical_block_from_class_loop(physical_tile, physical_class_num,
                                               i, sub_tile_cap + 1, 1)
            ELSE LET eq_site == sub_tile.equivalent_sites[e]
                     start_physical_class_num ==
                         get_primitives_class_physical_num(physical_tile, i - 1, eq_site,
                                                           sub_tile_cap, 0)
                     end_physical_class_num == start_physical_class_num + eq_site.num_classes
                 IN IF /\ physical_class_num >= start_physical_class_num
                       /\ physical_class_num < end_physical_class_num
                    THEN eq_site
                    ELSE logical_block_from_class_loop(physical_tile, physical_class_num,
                                                       i, sub_tile_cap, e + 1)

get_logical_block_from_class_physical_num(physical_tile, physical_class_num) ==
    logical_block_from_class_loop(physical_tile, physical_class_num, 1, 0, 1)

(***************************************************************************)
(* get_class_logical_num_from_class_physical_num                           *)
(***************************************************************************)
get_class_logical_num_from_class_physical_num(physical_tile, physical_class_num) ==
    LET sub_tile == get_sub_tile_from_class_physical_num(physical_tile, physical_class_num)
        sub_tile_cap == get_sub_tile_cap_from_class_physical_num(physical_tile, physical_class_num)
        logical_block == get_logical_block_from_class_physical_num(physical_tile, physical_class_num)
        start_physical_class_num ==
            get_primitives_class_physical_num(physical_tile, sub_tile, logical_block,
                                              sub_tile_cap, 0)
    IN IF sub_tile_cap = -1 THEN AssertFail
       ELSE IF start_physical_class_num = -1 THEN AssertFail
       ELSE Ok(<<physical_class_num - start_physical_class_num>>)

(***************************************************************************)
(* get_sub_block_pin_num_offset                                            *)
(***************************************************************************)
RECURSIVE sub_block_offset_loop(_, _, _, _, _, _, _, _)
sub_block_offset_loop(physical_tile, curr_sub_tile, curr_logical_block, curr_relative_cap, i, sub_tile_cap, e, offset) ==
    IF i > NumSubTiles(physical_tile) THEN offset
    ELSE LET tmp_sub_tile == physical_tile.sub_tiles[i]
         IN IF ~(sub_tile_cap < CapacityTotal(tmp_sub_tile.capacity))
            THEN sub_block_offset_loop(physical_tile, curr_sub_tile, curr_logical_block,
                                       curr_relative_cap, i + 1, 0, 1, offset)
            ELSE IF e > Len(tmp_sub_tile.equivalent_sites)
            THEN sub_block_offset_loop(physical_tile, curr_sub_tile, curr_logical_block,
                                       curr_relative_cap, i, sub_tile_cap + 1, 1, offset)
            ELSE LET eq_site == tmp_sub_tile.equivalent_sites[e]
                     is_found == /\ i - 1 = curr_sub_tile
                                 /\ sub_tile_cap = curr_relative_cap
                                 /\ eq_site = curr_logical_block
                 IN IF is_found THEN offset
                    ELSE sub_block_offset_loop(physical_tile, curr_sub_tile, curr_logical_block,
                                               curr_relative_cap, i, sub_tile_cap, e + 1,
                                               offset + eq_site.num_pins)

\* A variant that starts counting at 0 instead of the tile's root-level pin count.
get_sub_block_pin_num_offset_from_zero(physical_tile, curr_sub_tile, curr_logical_block, curr_relative_cap) ==
    sub_block_offset_loop(physical_tile, curr_sub_tile, curr_logical_block, curr_relative_cap, 1, 0, 1, 0)

\* A variant that walks sub-tile -> equivalent block -> capacity instance.
get_sub_block_pin_num_offset_block_major(physical_tile, curr_sub_tile, curr_logical_block, curr_relative_cap) ==
    LET st == physical_tile.sub_tiles[curr_sub_tile + 1]
        pos == CHOOSE e \in 1..Len(st.equivalent_sites) : st.equivalent_sites[e] = curr_logical_block
    IN physical_tile.num_pins
       + SumSeq([j \in 1..curr_sub_tile |->
                   CapacityTotal(physical_tile.sub_tiles[j].capacity)
                   * SumSeq([e \in 1..Len(physical_tile.sub_tiles[j].equivalent_sites) |->
                               physical_tile.sub_tiles[j].equivalent_sites[e].num_pins])])
       + SumSeq([e \in 1..(pos - 1) |->
                   CapacityTotal(st.capacity) * st.equivalent_sites[e].num_pins])
       + curr_relative_cap * curr_logical_block.num_pins

get_sub_block_pin_num_offset(physical_tile, curr_sub_tile, curr_logical_block, curr_relative_cap) ==
    sub_block_offset_loop(physical_tile, curr_sub_tile, curr_logical_block, curr_relative_cap, 1, 0, 1, physical_tile.num_pins)

(***************************************************************************)
(* The direct pin map of (logical block, sub-tile): logical root pin ->     *)
(* sub-tile pin of one instance.  Built by the architecture reader.        *)
(***************************************************************************)
\* position of a logical block among the equivalent sites of a sub-tile (std::find)
SitePosition(equivalent_sites, logical_block) ==
    CHOOSE e \in 1..Len(equivalent_sites) :
        /\ equivalent_sites[e] = logical_block
        /\ \A f \in 1..(e - 1) : equivalent_sites[f] # logical_block

tile_block_pin_directs_map(physical_tile, logical_block, sub_tile_index) ==
    physical_tile.tile_block_pin_directs_map[sub_tile_index + 1][
        SitePosition(physical_tile.sub_tiles[sub_tile_index + 1].equivalent_sites, logical_block)]

\* an exception of a container (std::out_of_range, the bimap's invalid key)
Thrown == [status |-> "thrown", val |-> <<>>, blk |-> NoBlock]

IsSiteOf(physical_tile, logical_block, sub_tile_index) ==
    \E e \in 1..Len(SubTileAt(physical_tile, sub_tile_index).equivalent_sites) :
        SubTileAt(physical_tile, sub_tile_index).equivalent_sites[e] = logical_block

(***************************************************************************)
(* get_sub_tile_physical_pin                                               *)
(***************************************************************************)
\* A variant that answers the sub-tile's first pin when the map has no entry.
get_sub_tile_physical_pin_defaulting(sub_tile_index, physical_tile, logical_block, pin) ==
    IF ~IsSiteOf(physical_tile, logical_block, sub_tile_index) THEN Thrown
    ELSE LET direct_map == tile_block_pin_directs_map(physical_tile, logical_block, sub_tile_index)
         IN IF pin \notin DOMAIN direct_map THEN Ok(<<0>>)
            ELSE Ok(<<direct_map[pin]>>)

get_sub_tile_physical_pin(sub_tile_index, physical_tile, logical_block, pin) ==
    IF ~IsSiteOf(physical_tile, logical_block, sub_tile_index) THEN Thrown
    ELSE LET direct_map == tile_block_pin_directs_map(physical_tile, logical_block, sub_tile_index)
         IN IF pin \notin DOMAIN direct_map THEN Fatal
            ELSE Ok(<<direct_map[pin]>>)

(***************************************************************************)
(* get_root_pb_pin_physical_num                                            *)
(***************************************************************************)
get_root_pb_pin_physical_num(physical_tile, sub_tile, logical_block, relative_cap, logical_pin_num) ==
    LET st == SubTileAt(physical_tile, sub_tile)
        block_num_pins == Div(st.num_phy_pins, CapacityTotal(st.capacity))
        r == get_sub_tile_physical_pin(st.index, physical_tile, logical_block, logical_pin_num)
    IN IF r.status # "ok" THEN r
       ELSE Ok(<<st.sub_tile_to_tile_pin_indices[r.val[1] + relative_cap * block_num_pins + 1]>>)

(***************************************************************************)
(* get_logical_block_physical_sub_tile_index, without and with a capacity  *)
(* location                                                                *)
(***************************************************************************)
IsEquivalentSite(equivalent_sites, logical_block) ==
    \E e \in 1..Len(equivalent_sites) : equivalent_sites[e] = logical_block

RECURSIVE sub_tile_index_loop(_, _, _, _)
sub_tile_index_loop(physical_tile, logical_block, i, sub_tile_index) ==
    IF i > NumSubTiles(physical_tile) THEN sub_tile_index
    ELSE LET sub_tile == physical_tile.sub_tiles[i]
         IN sub_tile_index_loop(physical_tile, logical_block, i + 1,
                                IF IsEquivalentSite(sub_tile.equivalent_sites, logical_block)
                                THEN sub_tile.index ELSE sub_tile_index)

get_logical_block_physical_sub_tile_index(physical_tile, logical_block) ==
    LET sub_tile_index == sub_tile_index_loop(physical_tile, logical_block, 1, OPEN)
    IN IF sub_tile_index = OPEN THEN Fatal ELSE Ok(<<sub_tile_index>>)

RECURSIVE sub_tile_index_at_loop(_, _, _, _)
sub_tile_index_at_loop(physical_tile, logical_block, sub_tile_capacity, i) ==
    IF i > NumSubTiles(physical_tile) THEN OPEN
    ELSE LET sub_tile == physical_tile.sub_tiles[i]
         IN IF /\ IsEquivalentSite(sub_tile.equivalent_sites, logical_block)
               /\ IsInRange(sub_tile.capacity, sub_tile_capacity)
            THEN sub_tile.index
            ELSE sub_tile_index_at_loop(physical_tile, logical_block, sub_tile_capacity, i + 1)

\* the overload that takes a capacity location
get_logical_block_physical_sub_tile_index_at(physical_tile, logical_block, sub_tile_capacity) ==
    LET sub_tile_index == sub_tile_index_at_loop(physical_tile, logical_block, sub_tile_capacity, 1)
    IN IF sub_tile_index = OPEN THEN Fatal ELSE Ok(<<sub_tile_index>>)

(***************************************************************************)
(* get_physical_pin, get_physical_pin_at_sub_tile_location                 *)
(***************************************************************************)
get_physical_pin(physical_tile, logical_block, pin) ==
    LET i == get_logical_block_physical_sub_tile_index(physical_tile, logical_block)
    IN IF i.status # "ok" THEN i
       ELSE LET sub_tile_index == i.val[1]
                r == get_sub_tile_physical_pin(sub_tile_index, physical_tile, logical_block, pin)
            IN IF r.status # "ok" THEN r
               ELSE Ok(<<SubTileAt(physical_tile, sub_tile_index)
                           .sub_tile_to_tile_pin_indices[r.val[1] + 1]>>)

\* A variant that takes the capacity location for the instance within the sub-tile.
get_physical_pin_at_sub_tile_location_absolute(physical_tile, logical_block, sub_tile_capacity, pin) ==
    LET i == get_logical_block_physical_sub_tile_index_at(physical_tile, logical_block,
                                                          sub_tile_capacity)
    IN IF i.status # "ok" THEN i
       ELSE LET sub_tile_index == i.val[1]
                st == SubTileAt(physical_tile, sub_tile_index)
                r == get_sub_tile_physical_pin(sub_tile_index, physical_tile, logical_block, pin)
                block_num_pins == Div(st.num_phy_pins, CapacityTotal(st.capacity))
            IN IF r.status # "ok" THEN r
               ELSE Ok(<<sub_tile_capacity * block_num_pins
                         + st.sub_tile_to_tile_pin_indices[r.val[1] + 1]>>)

get_physical_pin_at_sub_tile_location(physical_tile, logical_block, sub_tile_capacity, pin) ==
    LET i == get_logical_block_physical_sub_tile_index_at(physical_tile, logical_block,
                                                          sub_tile_capacity)
    IN IF i.status # "ok" THEN i
       ELSE LET sub_tile_index == i.val[1]
                st == SubTileAt(physical_tile, sub_tile_index)
                r == get_sub_tile_physical_pin(sub_tile_index, physical_tile, logical_block, pin)
                relative_capacity == sub_tile_capacity - st.capacity.low
                block_num_pins == Div(st.num_phy_pins, CapacityTotal(st.capacity))
            IN IF r.status # "ok" THEN r
               ELSE Ok(<<relative_capacity * block_num_pins
                         + st.sub_tile_to_tile_pin_indices[r.val[1] + 1]>>)

(***************************************************************************)
(* get_pb_pin_physical_num.  The pin is given by its logical number; it is *)
(* a root block pin when the number is below pb_type->num_pins.            *)
(***************************************************************************)
is_root_block_pin(logical_block, pin) == pin < logical_block.num_pins

get_pb_pin_physical_num(physical_tile, sub_tile, logical_block, relative_cap, pin) ==
    IF is_root_block_pin(logical_block, pin)
    THEN get_root_pb_pin_physical_num(physical_tile, sub_tile, logical_block, relative_cap, pin)
    ELSE LET logical_pin_num == pin
             offset == get_sub_block_pin_num_offset(physical_tile, sub_tile, logical_block, relative_cap)
         IN Ok(<<logical_pin_num + offset>>)

(***************************************************************************)
(* get_total_num_sub_tile_pins, get_total_num_tile_pins, get_tile_max_ptc  *)
(***************************************************************************)
get_total_num_sub_tile_pins(sub_tile) ==
    SumSeq([e \in 1..Len(sub_tile.equivalent_sites) |-> sub_tile.equivalent_sites[e].num_pb_pins])
    * CapacityTotal(sub_tile.capacity)

get_total_num_tile_pins(physical_tile) ==
    SumSeq([i \in 1..NumSubTiles(physical_tile) |->
              SumSeq([e \in 1..Len(physical_tile.sub_tiles[i].equivalent_sites) |->
                        physical_tile.sub_tiles[i].equivalent_sites[e].num_pins
                        * CapacityTotal(physical_tile.sub_tiles[i].capacity)])])

get_tile_max_ptc(physical_tile, is_flat) ==
    IF is_flat THEN physical_tile.num_pins + get_total_num_tile_pins(physical_tile)
    ELSE physical_tile.num_pins

(***************************************************************************)
(* get_sub_tile_from_pin_physical_num                                      *)
(***************************************************************************)
RECURSIVE sub_tile_from_pin_root_loop(_, _, _, _, _)
sub_tile_from_pin_root_loop(physical_tile, physical_num, i, num_seen_root_pins, target_sub_tile) ==
    IF i > NumSubTiles(physical_tile) THEN target_sub_tile
    ELSE LET sub_tile == physical_tile.sub_tiles[i]
         IN IF physical_num < num_seen_root_pins + sub_tile.num_phy_pins
            THEN sub_tile_from_pin_root_loop(physical_tile, physical_num, i + 1,
                                             num_seen_root_pins, i - 1)
            ELSE sub_tile_from_pin_root_loop(physical_tile, physical_num, i + 1,
                                             num_seen_root_pins + sub_tile.num_phy_pins,
                                             target_sub_tile)

RECURSIVE sub_tile_from_pin_flat_loop(_, _, _, _, _)
sub_tile_from_pin_flat_loop(physical_tile, physical_num, i, num_seen_root_pins, target_sub_tile) ==
    IF i > NumSubTiles(physical_tile) THEN target_sub_tile
    ELSE LET sub_tile == physical_tile.sub_tiles[i]
             num_internal_sub_tile_pin ==
                 get_total_num_sub_tile_pins(sub_tile) - sub_tile.num_phy_pins
         IN IF physical_num < num_seen_root_pins + num_internal_sub_tile_pin
            THEN sub_tile_from_pin_flat_loop(physical_tile, physical_num, i + 1,
                                             num_seen_root_pins, i - 1)
            ELSE sub_tile_from_pin_flat_loop(physical_tile, physical_num, i + 1,
                                             num_seen_root_pins + num_internal_sub_tile_pin,
                                             target_sub_tile)

get_sub_tile_from_pin_physical_num(physical_tile, physical_num) ==
    LET target_sub_tile ==
            IF physical_num < physical_tile.num_pins
            THEN sub_tile_from_pin_root_loop(physical_tile, physical_num, 1, 0, nullptr)
            ELSE sub_tile_from_pin_flat_loop(physical_tile, physical_num, 1,
                                             physical_tile.num_pins, nullptr)
    IN IF target_sub_tile = nullptr THEN AssertFail ELSE Ok(<<target_sub_tile>>)

(***************************************************************************)
(* get_sub_tile_cap_from_pin_physical_num                                  *)
(***************************************************************************)
RECURSIVE cap_from_pin_seen_loop(_, _, _, _)
cap_from_pin_seen_loop(physical_tile, sub_tile, i, num_seen_pins) ==
    IF i > NumSubTiles(physical_tile) THEN num_seen_pins
    ELSE LET tmp_sub_tile == physical_tile.sub_tiles[i]
             num_internal_sub_tile_pin ==
                 get_total_num_sub_tile_pins(tmp_sub_tile) - tmp_sub_tile.num_phy_pins
         IN IF sub_tile = i - 1 THEN num_seen_pins
            ELSE cap_from_pin_seen_loop(physical_tile, sub_tile, i + 1,
                                        num_seen_pins + num_internal_sub_tile_pin)

RECURSIVE cap_from_pin_cap_loop(_, _, _, _, _)
cap_from_pin_cap_loop(physical_num, total, block_num_pins, sub_tile_cap, num_seen_pins) ==
    IF ~(sub_tile_cap < total) THEN -1
    ELSE IF physical_num < num_seen_pins + block_num_pins THEN sub_tile_cap
    ELSE cap_from_pin_cap_loop(physical_num, total, block_num_pins, sub_tile_cap + 1,
                               num_seen_pins + block_num_pins)

get_sub_tile_cap_from_pin_physical_num(physical_tile, physical_num) ==
    LET r == get_sub_tile_from_pin_physical_num(physical_tile, physical_num)
    IN IF r.status # "ok" THEN r
       ELSE LET sub_tile == SubTileAt(physical_tile, r.val[1])
                total == CapacityTotal(sub_tile.capacity)
                target_cap ==
                    IF physical_num < physical_tile.num_pins
                    THEN Div(physical_num, Div(sub_tile.num_phy_pins, total))
                    ELSE cap_from_pin_cap_loop(
                             physical_num, total,
                             Div(get_total_num_sub_tile_pins(sub_tile), total), 0,
                             cap_from_pin_seen_loop(physical_tile, r.val[1], 1,
                                                    physical_tile.num_pins))
            IN IF target_cap = -1 THEN AssertFail ELSE Ok(<<target_cap>>)

(***************************************************************************)
(* get_logical_block_from_pin_physical_num                                 *)
(***************************************************************************)
RECURSIVE block_from_pin_seen_loop(_, _, _, _)
block_from_pin_seen_loop(physical_tile, sub_tile, i, num_seen_pins) ==
    IF i > NumSubTiles(physical_tile) THEN num_seen_pins
    ELSE LET tmp_sub_tile == physical_tile.sub_tiles[i]
             num_internal_sub_tile_pin ==
                 get_total_num_sub_tile_pins(tmp_sub_tile) - tmp_sub_tile.num_phy_pins
         IN IF sub_tile = i - 1
            THEN block_from_pin_seen_loop(physical_tile, sub_tile, i + 1,
                                          num_seen_pins + num_internal_sub_tile_pin)
            ELSE num_seen_pins

RECURSIVE block_from_pin_site_loop(_, _, _, _)
block_from_pin_site_loop(equivalent_sites, physical_num, e, num_seen_pins) ==
    IF e > Len(equivalent_sites) THEN NoBlock
    ELSE IF physical_num < num_seen_pins THEN equivalent_sites[e]
    ELSE block_from_pin_site_loop(equivalent_sites, physical_num, e + 1,
                                  num_seen_pins + equivalent_sites[e].num_pins)

get_logical_block_from_pin_physical_num(physical_tile, physical_num) ==
    LET r == get_sub_tile_from_pin_physical_num(physical_tile, physical_num)
        c == get_sub_tile_cap_from_pin_physical_num(physical_tile, physical_num)
    IN IF r.status # "ok" THEN r
       ELSE IF c.status # "ok" THEN c
       ELSE LET sub_tile == SubTileAt(physical_tile, r.val[1])
                sub_tile_cap == c.val[1]
                block_num_pins ==
                    Div(get_total_num_sub_tile_pins(sub_tile), CapacityTotal(sub_tile.capacity))
                num_seen_pins ==
                    block_from_pin_seen_loop(physical_tile, r.val[1], 1, physical_tile.num_pins)
                    + sub_tile_cap * block_num_pins
                target_logical_block ==
                    block_from_pin_site_loop(sub_tile.equivalent_sites, physical_num, 1,
                                             num_seen_pins)
            IN IF target_logical_block = NoBlock THEN AssertFail
               ELSE OkBlock(target_logical_block)

(***************************************************************************)
(* get_pin_logical_num_from_pin_physical_num                               *)
(***************************************************************************)
\* std::find over sub_tile_to_tile_pin_indices: the 0-based position, or the size
FindPinIndex(indices, physical_num) ==
    IF \E p \in 1..Len(indices) : indices[p] = physical_num
    THEN (CHOOSE p \in 1..Len(indices) :
             /\ indices[p] = physical_num
             /\ \A q \in 1..(p - 1) : indices[q] # physical_num) - 1
    ELSE Len(indices)

\* the bimap read by physical pin: the logical pin mapped to it, or none
DirectMapInverse(direct_map, sub_tile_pin_num) ==
    { n \in DOMAIN direct_map : direct_map[n] = sub_tile_pin_num }

get_pin_logical_num_from_pin_physical_num(physical_tile, physical_num) ==
    LET r == get_sub_tile_from_pin_physical_num(physical_tile, physical_num)
        c == get_sub_tile_cap_from_pin_physical_num(physical_tile, physical_num)
        b == get_logical_block_from_pin_physical_num(physical_tile, physical_num)
    IN IF r.status # "ok" THEN r
       ELSE IF c.status # "ok" THEN c
       ELSE IF b.status # "ok" THEN b
       ELSE LET sub_tile == SubTileAt(physical_tile, r.val[1])
                relative_cap == c.val[1]
                logical_block == b.blk
                tile_num_pins == physical_tile.num_pins
                block_num_pins == Div(sub_tile.num_phy_pins, CapacityTotal(sub_tile.capacity))
            IN IF physical_num >= tile_num_pins
               THEN Ok(<<physical_num
                         - get_sub_block_pin_num_offset(physical_tile, r.val[1],
                                                        logical_block, relative_cap)>>)
               ELSE LET direct_map ==
                            tile_block_pin_directs_map(physical_tile, logical_block, sub_tile.index)
                        result == FindPinIndex(sub_tile.sub_tile_to_tile_pin_indices, physical_num)
                        sub_tile_pin_num == result - relative_cap * block_num_pins
                        found == DirectMapInverse(direct_map, sub_tile_pin_num)
                    IN IF result = Len(sub_tile.sub_tile_to_tile_pin_indices) THEN AssertFail
                       ELSE IF found = {} THEN Thrown
                       ELSE Ok(<<CHOOSE n \in found : TRUE>>)

(***************************************************************************)
(* block_type_pin_index_to_name: the text of the pin's name                *)
(***************************************************************************)
RECURSIVE pin_name_port_loop(_, _, _, _)
pin_name_port_loop(ports, pin_index, i, pin_name) ==
    IF i > Len(ports) THEN "<UNKOWN>"
    ELSE LET port == ports[i]
         IN IF /\ pin_index >= port.absolute_first_pin_index
               /\ pin_index < port.absolute_first_pin_index + port.num_pins
            THEN LET index_in_port == pin_index - port.absolute_first_pin_index
                 IN pin_name \o port.name \o "[" \o ToString(index_in_port) \o "]"
            ELSE pin_name_port_loop(ports, pin_index, i + 1, pin_name)

block_type_pin_index_to_name(type, pin_index) ==
    IF ~(pin_index < type.num_pins) THEN AssertFail
    ELSE LET r == get_pin_index_for_inst(type, pin_index)
         IN IF r.status # "ok" THEN r
            ELSE LET sub_tile_index == r.val[3]
                     inst_num == r.val[2]
                     sub_tile == type.sub_tiles[sub_tile_index + 1]
                     pin_name == type.name
                                 \o (IF CapacityTotal(sub_tile.capacity) > 1
                                     THEN "[" \o ToString(inst_num) \o "]" ELSE "")
                                 \o "."
                 IN Ok(<<pin_name_port_loop(sub_tile.ports, r.val[1], 1, pin_name)>>)

(***************************************************************************)
(* find_pin, find_pin_class                                                *)
(***************************************************************************)
\* the scan of one sub-tile's ports: whether the name was found, the width of
\* the port found, the pins of the ports passed over
\* A variant that does not count the pins of the ports it passes over.
RECURSIVE find_pin_port_loop_no_base(_, _, _, _)
find_pin_port_loop_no_base(ports, port_name, j, port_base_ipin) ==
    IF j > Len(ports)
    THEN [port_found |-> FALSE, num_pins |-> OPEN, port_base_ipin |-> port_base_ipin]
    ELSE IF ports[j].name = port_name
    THEN [port_found |-> TRUE, num_pins |-> ports[j].num_pins, port_base_ipin |-> port_base_ipin]
    ELSE find_pin_port_loop_no_base(ports, port_name, j + 1, port_base_ipin)

RECURSIVE find_pin_port_loop(_, _, _, _)
find_pin_port_loop(ports, port_name, j, port_base_ipin) ==
    IF j > Len(ports)
    THEN [port_found |-> FALSE, num_pins |-> OPEN, port_base_ipin |-> port_base_ipin]
    ELSE IF ports[j].name = port_name
    THEN [port_found |-> TRUE, num_pins |-> ports[j].num_pins, port_base_ipin |-> port_base_ipin]
    ELSE find_pin_port_loop(ports, port_name, j + 1, port_base_ipin + ports[j].num_pins)

\* A variant that goes on to later sub-tiles and keeps the last port of the name.
RECURSIVE find_pin_loop_last_match(_, _, _, _)
find_pin_loop_last_match(type, port_name, i, pin_offset) ==
    IF i > NumSubTiles(type)
    THEN [num_pins |-> OPEN, port_base_ipin |-> 0, pin_offset |-> pin_offset]
    ELSE LET sub_tile == type.sub_tiles[i]
             scan == find_pin_port_loop(sub_tile.ports, port_name, 1, 0)
             later == find_pin_loop_last_match(type, port_name, i + 1,
                                               pin_offset + sub_tile.num_phy_pins)
         IN IF later.num_pins # OPEN THEN later
            ELSE IF scan.port_found
            THEN [num_pins |-> scan.num_pins, port_base_ipin |-> scan.port_base_ipin,
                  pin_offset |-> pin_offset]
            ELSE later

RECURSIVE find_pin_loop(_, _, _, _)
find_pin_loop(type, port_name, i, pin_offset) ==
    IF i > NumSubTiles(type)
    THEN [num_pins |-> OPEN, port_base_ipin |-> 0, pin_offset |-> pin_offset]
    ELSE LET sub_tile == type.sub_tiles[i]
             scan == find_pin_port_loop(sub_tile.ports, port_name, 1, 0)
         IN IF scan.port_found
            THEN [num_pins |-> scan.num_pins, port_base_ipin |-> scan.port_base_ipin,
                  pin_offset |-> pin_offset]
            ELSE find_pin_loop(type, port_name, i + 1, pin_offset + sub_tile.num_phy_pins)

find_pin(type, port_name, pin_index_in_port) ==
    LET r == find_pin_loop(type, port_name, 1, 0)
    IN IF r.num_pins # OPEN
       THEN IF ~(pin_index_in_port < r.num_pins) THEN AssertFail
            ELSE Ok(<<r.port_base_ipin + pin_index_in_port + r.pin_offset>>)
       ELSE Ok(<<OPEN>>)

find_pin_class(type, port_name, pin_index_in_port, pin_type) ==
    LET r == find_pin(type, port_name, pin_index_in_port)
    IN IF r.status # "ok" THEN r
       ELSE LET ipin == r.val[1]
            IN IF ipin # OPEN
               THEN LET iclass == type.pin_class[ipin + 1]
                    IN IF iclass # OPEN /\ type.class_inf[iclass + 1].type # pin_type
                       THEN AssertFail
                       ELSE Ok(<<iclass>>)
               ELSE Ok(<<OPEN>>)

(***************************************************************************)
(* get_port_by_name of a sub-tile: the port's place in sub_tile->ports, or *)
(* nullptr                                                                 *)
(***************************************************************************)
RECURSIVE get_port_by_name_loop(_, _, _)
get_port_by_name_loop(ports, port_name, j) ==
    IF j > Len(ports) THEN nullptr
    ELSE IF ports[j].name = port_name THEN ports[j].index
    ELSE get_port_by_name_loop(ports, port_name, j + 1)

get_port_by_name(sub_tile, port_name) == get_port_by_name_loop(sub_tile.ports, port_name, 1)

(***************************************************************************)
(* is_tile_compatible, is_sub_tile_compatible                              *)
(***************************************************************************)
is_tile_compatible(physical_tile, logical_block) ==
    LET equivalent_tiles == logical_block.equivalent_tiles
    IN \E i \in 1..Len(equivalent_tiles) : equivalent_tiles[i] = physical_tile.name

\* A variant that takes a block listed anywhere in the tile and a slot of any sub-tile.
RECURSIVE capacity_compatible_loop_any_sub_tile(_, _, _, _)
capacity_compatible_loop_any_sub_tile(physical_tile, logical_block, sub_tile_loc, i) ==
    /\ \E s \in 1..NumSubTiles(physical_tile) :
          IsEquivalentSite(physical_tile.sub_tiles[s].equivalent_sites, logical_block)
    /\ \E s \in 1..NumSubTiles(physical_tile) :
          IsInRange(physical_tile.sub_tiles[s].capacity, sub_tile_loc)

RECURSIVE capacity_compatible_loop(_, _, _, _)
capacity_compatible_loop(physical_tile, logical_block, sub_tile_loc, i) ==
    IF i > NumSubTiles(physical_tile) THEN FALSE
    ELSE LET sub_tile == physical_tile.sub_tiles[i]
             result == IsEquivalentSite(sub_tile.equivalent_sites, logical_block)
         IN IF IsInRange(sub_tile.capacity, sub_tile_loc) /\ result
            THEN TRUE
            ELSE capacity_compatible_loop(physical_tile, logical_block, sub_tile_loc, i + 1)

is_sub_tile_compatible(physical_tile, logical_block, sub_tile_loc) ==
    LET capacity_compatible == capacity_compatible_loop(physical_tile, logical_block, sub_tile_loc, 1)
    IN capacity_compatible /\ is_tile_compatible(physical_tile, logical_block)

(***************************************************************************)
(* get_tile_primitive_classes_map and the maps it is put together from.    *)
(* A map is a function from physical class numbers; the const t_class* it  *)
(* stores is the pair (logical block, logical class number) of the class   *)
(* pointed to.                                                             *)
(***************************************************************************)
\* std::unordered_map::insert of the entries of from: a key already there keeps its value
MapInsert(into, from) ==
    [ key \in DOMAIN into \cup DOMAIN from |->
        IF key \in DOMAIN into THEN into[key] ELSE from[key] ]

\* A variant that numbers the classes of every capacity instance as those of the first.
RECURSIVE logical_block_classes_loop_first_instance(_, _, _, _, _, _)
logical_block_classes_loop_first_instance(physical_tile, sub_tile, logical_block, relative_cap, class_num, primitive_classes) ==
    IF ~(class_num < logical_block.num_classes) THEN Ok(primitive_classes)
    ELSE LET tile_class_num == get_primitives_class_physical_num(physical_tile, sub_tile,
                                                                 logical_block, 0, class_num)
         IN IF ~(tile_class_num # -1) THEN AssertFail
            ELSE logical_block_classes_loop_first_instance(physical_tile, sub_tile, logical_block,
                     relative_cap, class_num + 1,
                     MapInsert(primitive_classes, [key \in {tile_class_num} |-> <<logical_block, class_num>>]))

RECURSIVE logical_block_classes_loop(_, _, _, _, _, _)
logical_block_classes_loop(physical_tile, sub_tile, logical_block, relative_cap, class_num, primitive_classes) ==
    IF ~(class_num < logical_block.num_classes) THEN Ok(primitive_classes)
    ELSE LET tile_class_num == get_primitives_class_physical_num(physical_tile, sub_tile,
                                                                 logical_block, relative_cap,
                                                                 class_num)
         IN IF ~(tile_class_num # -1) THEN AssertFail
            ELSE logical_block_classes_loop(physical_tile, sub_tile, logical_block,
                     relative_cap, class_num + 1,
                     MapInsert(primitive_classes, [key \in {tile_class_num} |-> <<logical_block, class_num>>]))

get_logical_block_primitive_classes_map(physical_tile, sub_tile, logical_block, relative_cap) ==
    logical_block_classes_loop(physical_tile, sub_tile, logical_block, relative_cap, 0, <<>>)

RECURSIVE sub_tile_classes_loop(_, _, _, _, _)
sub_tile_classes_loop(physical_tile, sub_tile, relative_cap, e, primitive_classes_map) ==
    IF e > Len(SubTileAt(physical_tile, sub_tile).equivalent_sites) THEN Ok(primitive_classes_map)
    ELSE LET eq_site == SubTileAt(physical_tile, sub_tile).equivalent_sites[e]
             logical_block_primitive_classes_map ==
                 get_logical_block_primitive_classes_map(physical_tile, sub_tile, eq_site, relative_cap)
         IN IF logical_block_primitive_classes_map.status # "ok"
            THEN logical_block_primitive_classes_map
            ELSE sub_tile_classes_loop(physical_tile, sub_tile, relative_cap, e + 1,
                     MapInsert(primitive_classes_map, logical_block_primitive_classes_map.val))

get_sub_tile_primitive_classes_map(physical_tile, sub_tile, relative_cap) ==
    sub_tile_classes_loop(physical_tile, sub_tile, relative_cap, 1, <<>>)

RECURSIVE tile_classes_loop(_, _, _, _)
tile_classes_loop(physical_tile, i, sub_tile_cap, primitive_classes_map) ==
    IF i > NumSubTiles(physical_tile) THEN Ok(primitive_classes_map)
    ELSE IF ~(sub_tile_cap < CapacityTotal(physical_tile.sub_tiles[i].capacity))
    THEN tile_classes_loop(physical_tile, i + 1, 0, primitive_classes_map)
    ELSE LET sub_tile_primitive_classes_map ==
                 get_sub_tile_primitive_classes_map(physical_tile, i - 1, sub_tile_cap)
         IN IF sub_tile_primitive_classes_map.status # "ok" THEN sub_tile_primitive_classes_map
            ELSE tile_classes_loop(physical_tile, i, sub_tile_cap + 1,
                     MapInsert(primitive_classes_map, sub_tile_primitive_classes_map.val))

get_tile_primitive_classes_map(physical_tile) ==
    tile_classes_loop(physical_tile, 1, 0, <<>>)

(***************************************************************************)
(* is_opin.  The outcomes of a call are a set: a read past the end of      *)
(* pin_class is undefined, and the build may answer either way or stop.    *)
(***************************************************************************)
\* the process stopped on an invalid read
Crashed == [status |-> "crash", val |-> <<>>, blk |-> NoBlock]

is_opin(ipin, type) ==
    IF ipin > type.num_pins THEN { Ok(<<FALSE>>) }
    ELSE IF ~(ipin < Len(type.pin_class)) THEN { Ok(<<TRUE>>), Ok(<<FALSE>>), Crashed }
    ELSE LET iclass == type.pin_class[ipin + 1]
         IN IF iclass < 0 \/ ~(iclass < Len(type.class_inf))
            THEN { Ok(<<TRUE>>), Ok(<<FALSE>>), Crashed }
            ELSE { Ok(<<type.class_inf[iclass + 1].type = "DRIVER">>) }

(***************************************************************************)
(* block_type_class_index_to_pin_names: the names of the pins of a class,  *)
(* one per (sub-tile, capacity instance, port) the class has pins in.      *)
(* A t_pin_inst_port is the tuple                                          *)
(*   (sub_tile_index, capacity_instance, port_index, pin_index_in_port).   *)
(***************************************************************************)
RECURSIVE class_pin_info_loop(_, _, _, _)
class_pin_info_loop(type, class_inf, ipin, pin_info) ==
    IF ~(ipin < class_inf.num_pins) THEN Ok(pin_info)
    ELSE LET pin_index == class_inf.pinlist[ipin + 1]
             r == block_type_pin_index_to_pin_inst(type, pin_index)
         IN IF r.status # "ok" THEN r
            ELSE class_pin_info_loop(type, class_inf, ipin + 1, Append(pin_info, r.val))

\* the comparison the pins are sorted by: the sub-tile is not part of it
cmp(lhs, rhs) ==
    \/ lhs[2] < rhs[2]
    \/ lhs[2] = rhs[2] /\ lhs[3] < rhs[3]
    \/ lhs[2] = rhs[2] /\ lhs[3] = rhs[3] /\ lhs[4] < rhs[4]

\* std::sort by cmp.  Pins that cmp does not order differ at most in their
\* sub-tile, so they belong to different ranges; they are kept in their order.
RECURSIVE sort_insert(_, _)
sort_insert(sorted, x) ==
    IF sorted = <<>> THEN <<x>>
    ELSE IF cmp(x, Head(sorted)) THEN <<x>> \o sorted
    ELSE <<Head(sorted)>> \o sort_insert(Tail(sorted), x)

RECURSIVE sort_pin_info(_, _, _)
sort_pin_info(pin_info, i, sorted) ==
    IF i > Len(pin_info) THEN sorted
    ELSE sort_pin_info(pin_info, i + 1, sort_insert(sorted, pin_info[i]))

\* A variant that widens a range over whatever pin comes next in it.
RECURSIVE pin_ranges_loop_no_assert(_, _, _)
pin_ranges_loop_no_assert(pin_info, i, pin_ranges) ==
    IF i > Len(pin_info) THEN Ok(pin_ranges)
    ELSE LET pin_inf == pin_info[i]
             key == <<pin_inf[1], pin_inf[2], pin_inf[3]>>
         IN pin_ranges_loop_no_assert(pin_info, i + 1,
                [k \in DOMAIN pin_ranges \cup {key} |->
                    IF k # key THEN pin_ranges[k]
                    ELSE IF key \notin DOMAIN pin_ranges THEN <<pin_inf[4], pin_inf[4]>>
                    ELSE <<pin_ranges[key][1], pin_inf[4]>>])

\* pin_ranges: (sub-tile, capacity instance, port) -> (first, second)
RECURSIVE pin_ranges_loop(_, _, _)
pin_ranges_loop(pin_info, i, pin_ranges) ==
    IF i > Len(pin_info) THEN Ok(pin_ranges)
    ELSE LET pin_inf == pin_info[i]
             key == <<pin_inf[1], pin_inf[2], pin_inf[3]>>
         IN IF key \notin DOMAIN pin_ranges
            THEN pin_ranges_loop(pin_info, i + 1,
                     [k \in DOMAIN pin_ranges \cup {key} |->
                         IF k = key THEN <<pin_inf[4], pin_inf[4]>> ELSE pin_ranges[k]])
            ELSE IF ~(pin_ranges[key][2] = pin_inf[4] - 1) THEN AssertFail
            ELSE pin_ranges_loop(pin_info, i + 1,
                     [pin_ranges EXCEPT ![key] = <<pin_ranges[key][1], pin_inf[4]>>])

\* the order std::map keeps its keys in
KeyLess(a, b) ==
    \/ a[1] < b[1]
    \/ a[1] = b[1] /\ a[2] < b[2]
    \/ a[1] = b[1] /\ a[2] = b[2] /\ a[3] < b[3]

\* vtr::string_fmt of one range
format_pin_range(type, type_port, pins) ==
    LET isub_tile == type_port[1]
        icapacity == type_port[2]
        iport == type_port[3]
        ipin_start == pins[1]
        ipin_end == pins[2]
        sub_tile == type.sub_tiles[isub_tile + 1]
    IN IF ipin_start = ipin_end
       THEN type.name \o "[" \o ToString(icapacity) \o "]." \o sub_tile.ports[iport + 1].name
            \o "[" \o ToString(ipin_start) \o "]"
       ELSE type.name \o "[" \o ToString(icapacity) \o "]." \o sub_tile.ports[iport + 1].name
            \o "[" \o ToString(ipin_start) \o ":" \o ToString(ipin_end) \o "]"

RECURSIVE format_pin_ranges_loop(_, _, _, _)
format_pin_ranges_loop(type, pin_ranges, keys, pin_names) ==
    IF keys = {} THEN pin_names
    ELSE LET kv == CHOOSE k \in keys : \A other \in keys \ {k} : KeyLess(k, other)
         IN format_pin_ranges_loop(type, pin_ranges, keys \ {kv},
                Append(pin_names, format_pin_range(type, kv, pin_ranges[kv])))

block_type_class_index_to_pin_names(type, class_index) ==
    IF ~(class_index < Len(type.class_inf)) THEN AssertFail
    ELSE LET class_inf == type.class_inf[class_index + 1]
             pin_info == class_pin_info_loop(type, class_inf, 0, <<>>)
         IN IF pin_info.status # "ok" THEN pin_info
            ELSE LET pin_ranges == pin_ranges_loop(sort_pin_info(pin_info.val, 1, <<>>), 1, <<>>)
                 IN IF pin_ranges.status # "ok" THEN pin_ranges
                    ELSE Ok(format_pin_ranges_loop(type, pin_ranges.val,
                                                   DOMAIN pin_ranges.val, <<>>))

(***************************************************************************)
(* The calls.  One call is outstanding at a time; its caller takes the     *)
(* outcome before the next call is made.                                   *)
(***************************************************************************)
\* the frame of a reader thread: the function it is in, its arguments, its
\* place in the function, its local accumulators and its outcome
IdleFrame == [fn |-> "none", a |-> <<>>, pc |-> "idle", l |-> <<1, 0, 1, 0>>, ret |-> NoCall]

InitWith(tiles) ==
    /\ tile \in tiles
    /\ op = "none"
    /\ args = <<>>
    /\ ret = NoCall
    /\ threads = [t \in 1..MaxThreads |-> IdleFrame]

Init == InitWith(PhysicalTileTypes)
InitPorts == InitWith(PortTiles)
InitUnits == InitWith(UnitTiles)

\* A variant of a call that widens the capacity of the first sub-tile it reads.
Call_writing(name, a, r) ==
    /\ op = "none"
    /\ op' = name
    /\ args' = a
    /\ ret' = r
    /\ tile' = [tile EXCEPT !.sub_tiles[1].capacity.high = @ + 1]
    /\ UNCHANGED threads

Call(name, a, r) ==
    /\ op = "none"
    /\ op' = name
    /\ args' = a
    /\ ret' = r
    /\ UNCHANGED <<tile, threads>>

Return ==
    /\ op # "none"
    /\ op' = "none"
    /\ args' = <<>>
    /\ ret' = NoCall
    /\ UNCHANGED <<tile, threads>>

\* the address spaces the arguments are drawn from
RootPins == 0..(tile.num_pins - 1)

FlatPinSpace(physical_tile) ==
    physical_tile.num_pins
    + SumSeq([i \in 1..NumSubTiles(physical_tile) |->
                get_total_num_sub_tile_pins(physical_tile.sub_tiles[i])])

PhysicalPinNums == 0..(FlatPinSpace(tile) - 1)

PhysicalClassNums == 0..(get_tile_num_primitive_classes(tile) - 1)

\* (sub-tile, position of the block in equivalent_sites, relative capacity), 0-based
Units(physical_tile) ==
    UNION { { <<s, e, k>> :
                e \in 0..(Len(SubTileAt(physical_tile, s).equivalent_sites) - 1),
                k \in 0..(CapacityTotal(SubTileAt(physical_tile, s).capacity) - 1) } :
            s \in 0..(NumSubTiles(physical_tile) - 1) }

BlockOf(physical_tile, u) == SubTileAt(physical_tile, u[1]).equivalent_sites[u[2] + 1]

CallGetPinIndexForInst ==
    \E p \in RootPins :
        Call("get_pin_index_for_inst", <<p>>, get_pin_index_for_inst(tile, p))

CallBlockTypePinIndexToPinInst ==
    \E p \in RootPins :
        Call("block_type_pin_index_to_pin_inst", <<p>>, block_type_pin_index_to_pin_inst(tile, p))

CallGetCapacityLocationFromPhysicalPin ==
    \E p \in RootPins :
        Call("get_capacity_location_from_physical_pin", <<p>>,
             get_capacity_location_from_physical_pin(tile, p))

CallGetPhysicalPinFromCapacityLocation ==
    \E s \in 1..NumSubTiles(tile) :
        LET st == tile.sub_tiles[s]
        IN \E loc \in st.capacity.low..st.capacity.high :
             \E rel \in 0..(Div(st.num_phy_pins, CapacityTotal(st.capacity)) - 1) :
                Call("get_physical_pin_from_capacity_location", <<rel, loc>>,
                     get_physical_pin_from_capacity_location(tile, rel, loc))

CallGetPrimitivesClassPhysicalNum ==
    \E u \in Units(tile) :
        \E n \in {0} \cup (0..(BlockOf(tile, u).num_classes - 1)) :
            Call("get_primitives_class_physical_num", <<u[1], u[2], u[3], n>>,
                 Ok(<<get_primitives_class_physical_num(tile, u[1], BlockOf(tile, u), u[3], n)>>))

CallGetSubTileFromClassPhysicalNum ==
    \E c \in PhysicalClassNums :
        Call("get_sub_tile_from_class_physical_num", <<c>>,
             Ok(<<get_sub_tile_from_class_physical_num(tile, c)>>))

CallGetSubTileCapFromClassPhysicalNum ==
    \E c \in PhysicalClassNums :
        Call("get_sub_tile_cap_from_class_physical_num", <<c>>,
             Ok(<<get_sub_tile_cap_from_class_physical_num(tile, c)>>))

CallGetLogicalBlockFromClassPhysicalNum ==
    \E c \in PhysicalClassNums :
        Call("get_logical_block_from_class_physical_num", <<c>>,
             OkBlock(get_logical_block_from_class_physical_num(tile, c)))

CallGetClassLogicalNumFromClassPhysicalNum ==
    \E c \in PhysicalClassNums :
        Call("get_class_logical_num_from_class_physical_num", <<c>>,
             get_class_logical_num_from_class_physical_num(tile, c))

CallGetSubBlockPinNumOffset ==
    \E u \in Units(tile) :
        Call("get_sub_block_pin_num_offset", <<u[1], u[2], u[3]>>,
             Ok(<<get_sub_block_pin_num_offset(tile, u[1], BlockOf(tile, u), u[3])>>))

CallGetPbPinPhysicalNum ==
    \E u \in Units(tile) :
        \E n \in 0..(BlockOf(tile, u).num_pb_pins - 1) :
            Call("get_pb_pin_physical_num", <<u[1], u[2], u[3], n>>,
                 get_pb_pin_physical_num(tile, u[1], BlockOf(tile, u), u[3], n))

CallGetSubTileFromPinPhysicalNum ==
    \E q \in PhysicalPinNums :
        Call("get_sub_tile_from_pin_physical_num", <<q>>,
             get_sub_tile_from_pin_physical_num(tile, q))

CallGetSubTileCapFromPinPhysicalNum ==
    \E q \in PhysicalPinNums :
        Call("get_sub_tile_cap_from_pin_physical_num", <<q>>,
             get_sub_tile_cap_from_pin_physical_num(tile, q))

CallGetLogicalBlockFromPinPhysicalNum ==
    \E q \in PhysicalPinNums :
        Call("get_logical_block_from_pin_physical_num", <<q>>,
             get_logical_block_from_pin_physical_num(tile, q))

CallGetPinLogicalNumFromPinPhysicalNum ==
    \E q \in PhysicalPinNums :
        Call("get_pin_logical_num_from_pin_physical_num", <<q>>,
             get_pin_logical_num_from_pin_physical_num(tile, q))

\* the names a caller asks for: the port names, declared in the tile or not
RequestNames ==
    PortNames \cup UNION { { tile.sub_tiles[s].ports[j].name : j \in 1..Len(tile.sub_tiles[s].ports) } :
                           s \in 1..NumSubTiles(tile) }

\* pin indices past the tile's last pin
PinsBeyond == tile.num_pins..(tile.num_pins + MaxLoosePins)

\* capacity locations of no sub-tile
LocationsBeyond ==
    ((-1)..(tile.sub_tiles[NumSubTiles(tile)].capacity.high + MaxLoosePins))
    \ UNION { tile.sub_tiles[s].capacity.low..tile.sub_tiles[s].capacity.high :
              s \in 1..NumSubTiles(tile) }

CallBlockTypePinIndexToName ==
    \E p \in RootPins :
        Call("block_type_pin_index_to_name", <<p>>, block_type_pin_index_to_name(tile, p))

CallFindPin ==
    \E nm \in RequestNames :
        \E i \in 0..tile.num_pins :
            Call("find_pin", <<nm, i>>, find_pin(tile, nm, i))

CallFindPinClass ==
    \E nm \in RequestNames :
        \E i \in 0..(tile.num_pins - 1) :
            \E ty \in {"DRIVER", "RECEIVER"} :
                Call("find_pin_class", <<nm, i, ty>>, find_pin_class(tile, nm, i, ty))

CallGetPortByName ==
    \E s \in 0..(NumSubTiles(tile) - 1) :
        \E nm \in RequestNames :
            Call("get_port_by_name", <<s, nm>>, Ok(<<get_port_by_name(SubTileAt(tile, s), nm)>>))

CallGetPinIndexForInstOutOfRange ==
    \E p \in PinsBeyond :
        Call("get_pin_index_for_inst", <<p>>, get_pin_index_for_inst(tile, p))

CallBlockTypePinIndexToNameOutOfRange ==
    \E p \in PinsBeyond :
        Call("block_type_pin_index_to_name", <<p>>, block_type_pin_index_to_name(tile, p))

CallGetCapacityLocationFromPhysicalPinOutOfRange ==
    \E p \in PinsBeyond :
        Call("get_capacity_location_from_physical_pin", <<p>>,
             get_capacity_location_from_physical_pin(tile, p))

CallGetPhysicalPinFromCapacityLocationOutOfRange ==
    \E loc \in LocationsBeyond :
        \E rel \in 0..(MaxLoosePins - 1) :
            Call("get_physical_pin_from_capacity_location", <<rel, loc>>,
                 get_physical_pin_from_capacity_location(tile, rel, loc))

\* The logical block of a call is named by a unit it is a site of; the pin is
\* a root-level logical pin of the block or the first number past them.
CallGetSubTilePhysicalPin ==
    \E u \in Units(tile) :
        \E s \in 0..(NumSubTiles(tile) - 1) :
            \E n \in 0..BlockOf(tile, u).num_pins :
                Call("get_sub_tile_physical_pin", <<u[1], u[2], s, n>>,
                     get_sub_tile_physical_pin(s, tile, BlockOf(tile, u), n))

CallGetPhysicalPin ==
    \E u \in Units(tile) :
        \E n \in 0..BlockOf(tile, u).num_pins :
            Call("get_physical_pin", <<u[1], u[2], n>>,
                 get_physical_pin(tile, BlockOf(tile, u), n))

CallGetPhysicalPinAtSubTileLocation ==
    \E u \in Units(tile) :
        \E loc \in 0..tile.sub_tiles[NumSubTiles(tile)].capacity.high :
            \E n \in 0..BlockOf(tile, u).num_pins :
                Call("get_physical_pin_at_sub_tile_location", <<u[1], u[2], loc, n>>,
                     get_physical_pin_at_sub_tile_location(tile, BlockOf(tile, u), loc, n))

\* Root-level pin location and capacity-location translation.
\* The blocks a compatibility query names: the blocks the tile lists, and the
\* blocks of the other names, which do not list the tile.
ListedBlocks ==
    UNION { { tile.sub_tiles[s].equivalent_sites[e] :
                e \in 1..Len(tile.sub_tiles[s].equivalent_sites) } :
            s \in 1..NumSubTiles(tile) }

BlocksToAsk ==
    ListedBlocks
    \cup { [name |-> nm, equivalent_tiles |-> ts] :
             nm \in CompatBlockNames \ { b.name : b \in ListedBlocks },
             ts \in { <<>>, <<"U">> } }

SlotsToAsk == (-1)..(tile.sub_tiles[NumSubTiles(tile)].capacity.high + 1)

CallIsTileCompatible ==
    \E b \in BlocksToAsk :
        Call("is_tile_compatible", <<b>>, Ok(<<is_tile_compatible(tile, b)>>))

CallIsSubTileCompatible ==
    \E b \in BlocksToAsk :
        \E loc \in SlotsToAsk :
            Call("is_sub_tile_compatible", <<b, loc>>,
                 Ok(<<is_sub_tile_compatible(tile, b, loc)>>))

\* a class of the tile, or the first number past its classes
CallBlockTypeClassIndexToPinNames ==
    \E class_index \in 0..Len(tile.class_inf) :
        Call("block_type_class_index_to_pin_names", <<class_index>>,
             block_type_class_index_to_pin_names(tile, class_index))

\* the pins of the class under query, one at a time
CallBlockTypePinIndexToNameOfClass ==
    \E q \in 1..tile.class_inf[1].num_pins :
        Call("block_type_pin_index_to_name", <<tile.class_inf[1].pinlist[q]>>,
             block_type_pin_index_to_name(tile, tile.class_inf[1].pinlist[q]))

\* The outcome of the query name with the arguments a, as the calls above pass them.
Outcome(name, a) ==
    CASE name = "get_pb_pin_physical_num" ->
             get_pb_pin_physical_num(tile, a[1], BlockOf(tile, a), a[3], a[4])
      [] name = "get_pin_logical_num_from_pin_physical_num" ->
             get_pin_logical_num_from_pin_physical_num(tile, a[1])
      [] name = "get_primitives_class_physical_num" ->
             Ok(<<get_primitives_class_physical_num(tile, a[1], BlockOf(tile, a), a[3], a[4])>>)
      [] name = "get_class_logical_num_from_class_physical_num" ->
             get_class_logical_num_from_class_physical_num(tile, a[1])
      [] name = "get_physical_pin_from_capacity_location" ->
             get_physical_pin_from_capacity_location(tile, a[1], a[2])
      [] name = "find_pin" -> find_pin(tile, a[1], a[2])
      [] name = "get_port_by_name" -> Ok(<<get_port_by_name(SubTileAt(tile, a[1]), a[2])>>)
      [] name = "is_sub_tile_compatible" -> Ok(<<is_sub_tile_compatible(tile, a[1], a[2])>>)

\* The caller makes the outstanding query once more, with the same arguments.
Recall ==
    /\ op # "none"
    /\ ret' = Outcome(op, args)
    /\ UNCHANGED <<tile, op, args, threads>>

\* which registry a tile is of, by the fields it has
IsCompatTile == "num_pins" \notin DOMAIN tile
IsNamedTile == "name" \in DOMAIN tile /\ "num_pins" \in DOMAIN tile
IsUnitTile == "name" \notin DOMAIN tile

(***************************************************************************)
(* Reader threads.  A thread is in one translator at a time and takes it   *)
(* one step at a time: the entry, then one pass of the innermost loop per  *)
(* step.  Its accumulators l are its own locals:                           *)
(*   get_pin_index_for_inst             (i, total_pin_counts, pin_offset)  *)
(*   get_primitives_class_physical_num  (i, sub_tile_cap, e,               *)
(*                                       num_seen_primitive_class)         *)
(***************************************************************************)
DoneFrame(f, r) == [f EXCEPT !.pc = "done", !.ret = r]

get_pin_index_for_inst_step(type, f) ==
    LET pin_index == f.a[1]
        i == f.l[1]
        total_pin_counts == f.l[2]
        pin_offset == f.l[3]
    IN IF f.pc = "entry"
       THEN IF ~(pin_index < type.num_pins) THEN DoneFrame(f, AssertFail)
            ELSE [f EXCEPT !.pc = "loop", !.l = <<1, 0, 0, 0>>]
       ELSE IF i > NumSubTiles(type) THEN DoneFrame(f, Fatal)
       ELSE LET sub_tile == type.sub_tiles[i]
                total == total_pin_counts + sub_tile.num_phy_pins
            IN IF pin_index < total
               THEN LET pins_per_inst == Div(sub_tile.num_phy_pins, CapacityTotal(sub_tile.capacity))
                        inst_num == Div(pin_index - pin_offset, pins_per_inst)
                        inst_index == Mod(pin_index - pin_offset, pins_per_inst)
                    IN DoneFrame(f, Ok(<<inst_index, inst_num, sub_tile.index>>))
               ELSE [f EXCEPT !.l = <<i + 1, total, pin_offset + sub_tile.num_phy_pins, 0>>]

get_primitives_class_physical_num_step(physical_tile, f) ==
    LET curr_sub_tile == f.a[1]
        curr_logical_block == BlockOf(physical_tile, f.a)
        curr_relative_cap == f.a[3]
        logical_primitive_class_num == f.a[4]
        i == f.l[1]
        sub_tile_cap == f.l[2]
        e == f.l[3]
        num_seen_primitive_class == f.l[4]
    IN IF f.pc = "entry" THEN [f EXCEPT !.pc = "loop", !.l = <<1, 0, 1, 0>>]
       ELSE IF i > NumSubTiles(physical_tile) THEN DoneFrame(f, Ok(<<-1>>))
       ELSE LET sub_tile == physical_tile.sub_tiles[i]
            IN IF ~(sub_tile_cap < CapacityTotal(sub_tile.capacity))
               THEN [f EXCEPT !.l = <<i + 1, 0, 1, num_seen_primitive_class>>]
               ELSE IF e > Len(sub_tile.equivalent_sites)
               THEN [f EXCEPT !.l = <<i, sub_tile_cap + 1, 1, num_seen_primitive_class>>]
               ELSE LET eq_site == sub_tile.equivalent_sites[e]
                    IN IF /\ i - 1 = curr_sub_tile
                          /\ eq_site = curr_logical_block
                          /\ curr_relative_cap = sub_tile_cap
                       THEN DoneFrame(f, Ok(<<num_seen_primitive_class
                                              + logical_primitive_class_num>>))
                       ELSE [f EXCEPT !.l = <<i, sub_tile_cap, e + 1,
                                              num_seen_primitive_class + eq_site.num_classes>>]

ThreadEnter(t, fn, a) ==
    /\ threads[t].pc = "idle"
    /\ threads' = [threads EXCEPT ![t] = [IdleFrame EXCEPT !.fn = fn, !.a = a, !.pc = "entry"]]
    /\ UNCHANGED <<tile, op, args, ret>>

\* a pin of the tile or the first number past its pins
ThreadCallGetPinIndexForInst ==
    \E t \in 1..MaxThreads :
        \E p \in 0..tile.num_pins :
            ThreadEnter(t, "get_pin_index_for_inst", <<p>>)

ThreadCallGetPrimitivesClassPhysicalNum ==
    \E t \in 1..MaxThreads :
        \E u \in Units(tile) :
            \E n \in {0} \cup (0..(BlockOf(tile, u).num_classes - 1)) :
                ThreadEnter(t, "get_primitives_class_physical_num", <<u[1], u[2], u[3], n>>)

\* A variant whose accumulators are one set of statics that every thread works on.
ThreadStep_shared_accumulators(t) ==
    /\ threads[t].pc \in {"entry", "loop"}
    /\ LET f == [threads[t] EXCEPT !.l = threads[1].l]
           g == IF f.fn = "get_pin_index_for_inst"
                THEN get_pin_index_for_inst_step(tile, f)
                ELSE get_primitives_class_physical_num_step(tile, f)
       IN threads' = [threads EXCEPT ![t] = g, ![1] = [@ EXCEPT !.l = g.l]]
    /\ UNCHANGED <<tile, op, args, ret>>

\* One step of thread t; the steps of the threads interleave in any order.
ThreadStep(t) ==
    /\ threads[t].pc \in {"entry", "loop"}
    /\ threads' = [threads EXCEPT ![t] =
                      IF threads[t].fn = "get_pin_index_for_inst"
                      THEN get_pin_index_for_inst_step(tile, threads[t])
                      ELSE get_primitives_class_physical_num_step(tile, threads[t])]
    /\ UNCHANGED <<tile, op, args, ret>>

ThreadSteps == \E t \in 1..MaxThreads : ThreadStep(t)

\* a pin of the tile, the first number past its pins or the one after
CallIsOpin ==
    \E ipin \in 0..(tile.num_pins + 1) :
        \E r \in is_opin(ipin, tile) :
            Call("is_opin", <<ipin>>, r)

\* class numbers of no class of the tile: below 0, and the first two past the last
ClassNumsBeyond ==
    {-1, get_tile_num_primitive_classes(tile), get_tile_num_primitive_classes(tile) + 1}

CallGetSubTileFromClassPhysicalNumOutOfRange ==
    \E c \in ClassNumsBeyond :
        Call("get_sub_tile_from_class_physical_num", <<c>>,
             Ok(<<get_sub_tile_from_class_physical_num(tile, c)>>))

CallGetSubTileCapFromClassPhysicalNumOutOfRange ==
    \E c \in ClassNumsBeyond :
        Call("get_sub_tile_cap_from_class_physical_num", <<c>>,
             Ok(<<get_sub_tile_cap_from_class_physical_num(tile, c)>>))

CallGetLogicalBlockFromClassPhysicalNumOutOfRange ==
    \E c \in ClassNumsBeyond :
        Call("get_logical_block_from_class_physical_num", <<c>>,
             OkBlock(get_logical_block_from_class_physical_num(tile, c)))

CallGetClassLogicalNumFromClassPhysicalNumOutOfRange ==
    \E c \in ClassNumsBeyond :
        Call("get_class_logical_num_from_class_physical_num", <<c>>,
             get_class_logical_num_from_class_physical_num(tile, c))

\* the blocks of the tile, and a block of another tile
BlocksOfTile ==
    UNION { { tile.sub_tiles[s].equivalent_sites[e] :
                e \in 1..Len(tile.sub_tiles[s].equivalent_sites) } :
            s \in 1..NumSubTiles(tile) }

ForeignBlock == [num_pins |-> 1, num_pb_pins |-> MaxFlatPins + 2, num_classes |-> 1]

\* Any sub-tile of the tile or a sub-tile of another tile (the index past the
\* last), any block, any capacity instance up to the first past the last.
CallGetPrimitivesClassPhysicalNumOfAnyUnit ==
    \E s \in 0..NumSubTiles(tile) :
        \E b \in BlocksOfTile \cup {ForeignBlock} :
            \E k \in 0..CapacityTotal(tile.sub_tiles[IF s < NumSubTiles(tile) THEN s + 1 ELSE 1].capacity) :
                Call("get_primitives_class_physical_num", <<s, b, k, 0>>,
                     Ok(<<get_primitives_class_physical_num(tile, s, b, k, 0)>>))

\* The sub-tile of a block: a block of the tile or a block of another tile, and
\* a capacity location up to the first past the tile's last.
CallGetLogicalBlockPhysicalSubTileIndex ==
    \E b \in BlocksOfTile \cup {ForeignBlock} :
        Call("get_logical_block_physical_sub_tile_index", <<b>>,
             get_logical_block_physical_sub_tile_index(tile, b))

CallGetLogicalBlockPhysicalSubTileIndexAt ==
    \E b \in BlocksOfTile \cup {ForeignBlock} :
        \E loc \in 0..(tile.sub_tiles[NumSubTiles(tile)].capacity.high + 1) :
            Call("get_logical_block_physical_sub_tile_index_at", <<b, loc>>,
                 get_logical_block_physical_sub_tile_index_at(tile, b, loc))

CallGetTilePrimitiveClassesMap ==
    Call("get_tile_primitive_classes_map", <<>>, get_tile_primitive_classes_map(tile))

CallGetTileNumPrimitiveClasses ==
    Call("get_tile_num_primitive_classes", <<>>, Ok(<<get_tile_num_primitive_classes(tile)>>))

NextLocate ==
    \/ CallGetPinIndexForInst
    \/ CallBlockTypePinIndexToPinInst
    \/ CallGetCapacityLocationFromPhysicalPin
    \/ CallGetPhysicalPinFromCapacityLocation
    \/ Return

SpecLocate == InitPorts /\ [][NextLocate]_vars

\* Translation by unit: class numbers both ways, flat pin numbers forward.
NextForward ==
    \/ CallGetPrimitivesClassPhysicalNum
    \/ CallGetSubTileFromClassPhysicalNum
    \/ CallGetSubTileCapFromClassPhysicalNum
    \/ CallGetLogicalBlockFromClassPhysicalNum
    \/ CallGetClassLogicalNumFromClassPhysicalNum
    \/ CallGetSubBlockPinNumOffset
    \/ CallGetPbPinPhysicalNum
    \/ Return

SpecForward == InitUnits /\ [][NextForward]_vars

\* Physical pin numbers (root-level and flat) back to their unit and logical pin.
NextInverse ==
    \/ CallGetPbPinPhysicalNum
    \/ CallGetSubTileFromPinPhysicalNum
    \/ CallGetSubTileCapFromPinPhysicalNum
    \/ CallGetLogicalBlockFromPinPhysicalNum
    \/ CallGetPinLogicalNumFromPinPhysicalNum
    \/ Return

SpecInverse == InitUnits /\ [][NextInverse]_vars

\* Lookups by name and the names of pins, on tiles whose ports tile the instances.
InitNames == InitWith(NamedTiles \cup {CLOCK_TILE} \cup SixFourTiles)

NextNames ==
    \/ CallGetPinIndexForInst
    \/ CallBlockTypePinIndexToPinInst
    \/ CallBlockTypePinIndexToName
    \/ CallFindPin
    \/ CallFindPinClass
    \/ CallGetPortByName
    \/ CallIsOpin
    \/ Return

SpecNames == InitNames /\ [][NextNames]_vars

\* Addresses of no pin and of no capacity slot, and pins of no port.
InitLoose == InitWith(LooseTiles)

NextReject ==
    \/ CallGetPinIndexForInstOutOfRange
    \/ CallBlockTypePinIndexToNameOutOfRange
    \/ CallGetCapacityLocationFromPhysicalPinOutOfRange
    \/ CallGetPhysicalPinFromCapacityLocationOutOfRange
    \/ CallBlockTypePinIndexToPinInst
    \/ CallBlockTypePinIndexToName
    \/ Return

SpecReject == InitLoose /\ [][NextReject]_vars

\* Root-level pins through the direct pin maps, forward and back.
InitDirects == InitWith(DirectTiles \cup TwoInstanceDirectTiles)

NextDirect ==
    \/ CallGetSubTilePhysicalPin
    \/ CallGetPhysicalPin
    \/ CallGetPhysicalPinAtSubTileLocation
    \/ CallGetPbPinPhysicalNum
    \/ CallGetPinLogicalNumFromPinPhysicalNum
    \/ CallGetLogicalBlockPhysicalSubTileIndex
    \/ CallGetLogicalBlockPhysicalSubTileIndexAt
    \/ Return

SpecDirect == InitDirects /\ [][NextDirect]_vars

\* The compatibility queries.
InitCompat == InitWith(CompatTiles)

NextCompat ==
    \/ CallIsTileCompatible
    \/ CallIsSubTileCompatible
    \/ Return

SpecCompat == InitCompat /\ [][NextCompat]_vars

\* The names of the pins of a class.
InitClasses == InitWith(ClassTiles)

NextClassNames ==
    \/ CallBlockTypeClassIndexToPinNames
    \/ CallBlockTypePinIndexToNameOfClass
    \/ Return

SpecClassNames == InitClasses /\ [][NextClassNames]_vars

\* Queries of every kind, each made and made again, on tiles of three registries.
InitReadOnly == InitWith(DirectTiles \cup NamedTiles \cup CompatTiles)

NextReadOnly ==
    \/ IsUnitTile /\ CallGetPbPinPhysicalNum
    \/ IsUnitTile /\ CallGetPinLogicalNumFromPinPhysicalNum
    \/ IsUnitTile /\ CallGetPrimitivesClassPhysicalNum
    \/ IsUnitTile /\ CallGetClassLogicalNumFromClassPhysicalNum
    \/ IsUnitTile /\ CallGetPhysicalPinFromCapacityLocationOutOfRange
    \/ IsNamedTile /\ CallFindPin
    \/ IsNamedTile /\ CallGetPortByName
    \/ IsCompatTile /\ CallIsSubTileCompatible
    \/ Recall
    \/ Return

SpecReadOnly == InitReadOnly /\ [][NextReadOnly]_vars

\* Reader threads in the translators at the same time.
InitThreads == InitWith(ThreadTiles)

NextThreads ==
    \/ ThreadCallGetPinIndexForInst
    \/ ThreadCallGetPrimitivesClassPhysicalNum
    \/ ThreadSteps

SpecThreads == InitThreads /\ [][NextThreads]_vars

\* Class numbers of no class, units of no place in the tile.
NextClassReject ==
    \/ CallGetSubTileFromClassPhysicalNumOutOfRange
    \/ CallGetSubTileCapFromClassPhysicalNumOutOfRange
    \/ CallGetLogicalBlockFromClassPhysicalNumOutOfRange
    \/ CallGetClassLogicalNumFromClassPhysicalNumOutOfRange
    \/ CallGetPrimitivesClassPhysicalNumOfAnyUnit
    \/ CallGetTilePrimitiveClassesMap
    \/ CallGetTileNumPrimitiveClasses
    \/ Return

SpecClassReject == InitUnits /\ [][NextClassReject]_vars

Next ==
    NextLocate \/ NextForward \/ NextInverse \/ NextNames \/ NextReject \/ NextDirect
    \/ NextCompat \/ NextClassNames \/ NextReadOnly
    \/ NextThreads \/ NextClassReject

Spec == Init /\ [][Next]_vars

(***************************************************************************)
(* Reference definitions the properties are stated with.                   *)
(***************************************************************************)
\* root pins of the sub-tiles declared before sub-tile s (0-based)
PinOffsetOf(physical_tile, s) ==
    SumSeq([j \in 1..s |-> physical_tile.sub_tiles[j].num_phy_pins])

PinsPerInstance(sub_tile) == sub_tile.num_phy_pins \div CapacityTotal(sub_tile.capacity)

SubTileIndices(physical_tile) == 0..(NumSubTiles(physical_tile) - 1)

\* the sub-tile whose cumulative root-pin range contains p
OwningSubTile(physical_tile, p) ==
    CHOOSE s \in SubTileIndices(physical_tile) :
        /\ PinOffsetOf(physical_tile, s) <= p
        /\ p < PinOffsetOf(physical_tile, s) + SubTileAt(physical_tile, s).num_phy_pins

(***************************************************************************)
(* C1  Pin round-trip.  Locating a root-level pin p and resolving its port *)
(* gives a sub-tile, a capacity instance, a port and an index in the port  *)
(* from which p is re-derived exactly: pins of the preceding sub-tiles     *)
(* + instance * pins per instance + port's first pin + index in port = p.  *)
(***************************************************************************)
C1_PinRoundTrip ==
    /\ op = "get_pin_index_for_inst" =>
          /\ ret.status = "ok"
          /\ ret.val[3] \in SubTileIndices(tile)
          /\ LET st == SubTileAt(tile, ret.val[3])
             IN /\ ret.val[2] \in 0..(CapacityTotal(st.capacity) - 1)
                /\ ret.val[1] \in 0..(PinsPerInstance(st) - 1)
                /\ PinOffsetOf(tile, ret.val[3]) + ret.val[2] * PinsPerInstance(st) + ret.val[1]
                   = args[1]
    /\ op = "block_type_pin_index_to_pin_inst" =>
          /\ ret.status = "ok"
          /\ ret.val[1] \in SubTileIndices(tile)
          /\ LET st == SubTileAt(tile, ret.val[1])
             IN /\ ret.val[2] \in 0..(CapacityTotal(st.capacity) - 1)
                /\ ret.val[3] \in 0..(Len(st.ports) - 1)
                /\ LET port == st.ports[ret.val[3] + 1]
                   IN /\ ret.val[4] \in 0..(port.num_pins - 1)
                      /\ PinOffsetOf(tile, ret.val[1]) + ret.val[2] * PinsPerInstance(st)
                         + port.absolute_first_pin_index + ret.val[4] = args[1]

\* a pin of the second port of a later instance of a later sub-tile
C1_Witness ==
    /\ op = "block_type_pin_index_to_pin_inst"
    /\ ret.status = "ok"
    /\ ret.val[1] >= 1
    /\ ret.val[2] >= 1
    /\ ret.val[3] >= 1

(***************************************************************************)
(* C2  Capacity-location round-trip.  The pin of the capacity location of  *)
(* a pin p is p, and the capacity location of the pin of a valid           *)
(* (relative pin, capacity location) pair is that pair.                    *)
(***************************************************************************)
C2_CapacityLocationRoundTrip ==
    /\ op = "get_capacity_location_from_physical_pin" =>
          /\ ret.status = "ok"
          /\ get_physical_pin_from_capacity_location(tile, ret.val[2], ret.val[1])
             = Ok(<<args[1]>>)
    /\ op = "get_physical_pin_from_capacity_location" =>
          /\ ret.status = "ok"
          /\ ret.val[1] \in RootPins
          /\ get_capacity_location_from_physical_pin(tile, ret.val[1])
             = Ok(<<args[2], args[1]>>)

\* a relative pin of a later instance of a sub-tile whose capacity range starts above 0
C2_Witness ==
    /\ op = "get_physical_pin_from_capacity_location"
    /\ ret.status = "ok"
    /\ NumSubTiles(tile) >= 2
    /\ args[2] = tile.sub_tiles[2].capacity.high
    /\ args[2] > tile.sub_tiles[2].capacity.low

\* the units that come before unit u in the order sub-tile -> capacity instance -> block
UnitsBefore(physical_tile, u) ==
    { v \in Units(physical_tile) :
        \/ v[1] < u[1]
        \/ v[1] = u[1] /\ v[3] < u[3]
        \/ v[1] = u[1] /\ v[3] = u[3] /\ v[2] < u[2] }

RECURSIVE SumOver(_, _, _)
SumOver(physical_tile, units, field) ==
    IF units = {} THEN 0
    ELSE LET u == CHOOSE v \in units : TRUE
         IN (CASE field = "num_classes" -> BlockOf(physical_tile, u).num_classes
               [] field = "num_pins" -> BlockOf(physical_tile, u).num_pins
               [] OTHER -> BlockOf(physical_tile, u).num_pb_pins)
            + SumOver(physical_tile, units \ {u}, field)

\* the unit a call by unit was made for
ArgUnit == <<args[1], args[2], args[3]>>

(***************************************************************************)
(* C3  Class round-trip.  For a physical class number c of the tile, the   *)
(* sub-tile, capacity instance, logical block and logical class number the *)
(* inverse queries give translate forward to c again, and the logical      *)
(* class number is a class of that block.                                  *)
(***************************************************************************)
C3_ClassRoundTrip ==
    op = "get_class_logical_num_from_class_physical_num" =>
        /\ ret.status = "ok"
        /\ LET c == args[1]
               s == get_sub_tile_from_class_physical_num(tile, c)
               k == get_sub_tile_cap_from_class_physical_num(tile, c)
               b == get_logical_block_from_class_physical_num(tile, c)
               n == ret.val[1]
           IN /\ s # nullptr
              /\ b # NoBlock
              /\ get_primitives_class_physical_num(tile, s, b, k, n) = c
              /\ 0 <= n
              /\ n < b.num_classes

\* the second class of a block of a later sub-tile, classes of an earlier sub-tile before it
C3_Witness ==
    /\ op = "get_class_logical_num_from_class_physical_num"
    /\ ret.status = "ok"
    /\ ret.val[1] >= 1
    /\ get_sub_tile_from_class_physical_num(tile, args[1]) >= 1
    /\ args[1] > ret.val[1]

\* the non-root pins of a block, by logical number
InternalPins(logical_block) == logical_block.num_pins..(logical_block.num_pb_pins - 1)

(***************************************************************************)
(* C4  Owning sub-tile of a root-level pin.  For a physical pin p below    *)
(* the tile's pin count, get_sub_tile_from_pin_physical_num gives the      *)
(* sub-tile whose cumulative root-pin range contains p, the sub-tile that  *)
(* get_pin_index_for_inst reports.                                         *)
(***************************************************************************)
C4_OwningSubTileOfRootPin ==
    (op = "get_sub_tile_from_pin_physical_num" /\ args[1] < tile.num_pins) =>
        /\ ret = Ok(<<OwningSubTile(tile, args[1])>>)
        /\ ret.val[1] = get_pin_index_for_inst(tile, args[1]).val[3]

(***************************************************************************)
(* C5  Owning capacity slot of a root-level pin.  For a physical pin p     *)
(* below the tile's pin count, get_sub_tile_cap_from_pin_physical_num      *)
(* gives (p - pin offset of the owning sub-tile) / pins per instance, the  *)
(* instance that get_pin_index_for_inst reports.                           *)
(***************************************************************************)
C5_OwningCapacityOfRootPin ==
    (op = "get_sub_tile_cap_from_pin_physical_num" /\ args[1] < tile.num_pins) =>
        LET s == OwningSubTile(tile, args[1])
        IN /\ ret = Ok(<<(args[1] - PinOffsetOf(tile, s)) \div PinsPerInstance(SubTileAt(tile, s))>>)
           /\ ret.val[1] = get_pin_index_for_inst(tile, args[1]).val[2]

(***************************************************************************)
(* C6  Flat pin round-trip.  The flat physical number of a non-root pin n  *)
(* of block b in capacity instance k of sub-tile s translates back to s,   *)
(* k, b and n.                                                             *)
(***************************************************************************)
C6_FlatPinRoundTrip ==
    (op = "get_pb_pin_physical_num" /\ args[4] \in InternalPins(BlockOf(tile, ArgUnit))) =>
        /\ ret.status = "ok"
        /\ get_sub_tile_from_pin_physical_num(tile, ret.val[1]) = Ok(<<args[1]>>)
        /\ get_sub_tile_cap_from_pin_physical_num(tile, ret.val[1]) = Ok(<<args[3]>>)
        /\ get_logical_block_from_pin_physical_num(tile, ret.val[1])
           = OkBlock(BlockOf(tile, ArgUnit))
        /\ get_pin_logical_num_from_pin_physical_num(tile, ret.val[1]) = Ok(<<args[4]>>)

(***************************************************************************)
(* C7  Flat addresses are unique.  Within one tile no other (sub-tile,     *)
(* capacity instance, block, non-root pin) address has the flat physical   *)
(* number of this one.                                                     *)
(***************************************************************************)
C7_FlatAddressesUnique ==
    (op = "get_pb_pin_physical_num" /\ args[4] \in InternalPins(BlockOf(tile, ArgUnit))) =>
        \A u \in Units(tile) :
            \A n \in InternalPins(BlockOf(tile, u)) :
                (<<u, n>> # <<ArgUnit, args[4]>>) =>
                    get_pb_pin_physical_num(tile, u[1], BlockOf(tile, u), u[3], n) # ret

(***************************************************************************)
(* C8  Disjointness.  The flat physical number of a non-root pin is at     *)
(* least the tile's root-level pin count, so it is no root-level physical  *)
(* pin number of the tile.                                                 *)
(***************************************************************************)
C8_FlatDisjointFromRoot ==
    (op = "get_pb_pin_physical_num" /\ ~is_root_block_pin(BlockOf(tile, ArgUnit), args[4])) =>
        /\ ret.status = "ok"
        /\ ret.val[1] >= tile.num_pins
        /\ ret.val[1] \notin RootPins

\* an internal pin of a unit that is not the tile's first unit
C8_Witness ==
    /\ op = "get_pb_pin_physical_num"
    /\ ~is_root_block_pin(BlockOf(tile, ArgUnit), args[4])
    /\ UnitsBefore(tile, ArgUnit) # {}
    /\ tile.num_pins >= 2
    /\ ret.status = "ok"

(***************************************************************************)
(* C9  Monotonicity without gaps.  Within one unit the physical class      *)
(* number of logical class n+1 is that of class n plus 1, and the flat     *)
(* physical number of the non-root pin n+1 is that of pin n plus 1.        *)
(***************************************************************************)
C9_MonotoneNoGaps ==
    /\ (op = "get_primitives_class_physical_num"
        /\ args[4] + 1 < BlockOf(tile, ArgUnit).num_classes) =>
          get_primitives_class_physical_num(tile, args[1], BlockOf(tile, ArgUnit),
                                            args[3], args[4] + 1)
          = ret.val[1] + 1
    /\ (op = "get_pb_pin_physical_num"
        /\ ~is_root_block_pin(BlockOf(tile, ArgUnit), args[4])
        /\ args[4] + 1 < BlockOf(tile, ArgUnit).num_pb_pins) =>
          /\ ret.status = "ok"
          /\ get_pb_pin_physical_num(tile, args[1], BlockOf(tile, ArgUnit), args[3], args[4] + 1)
             = Ok(<<ret.val[1] + 1>>)

\* a class that has a successor, in a unit that is not the tile's first unit
C9_Witness ==
    /\ op = "get_primitives_class_physical_num"
    /\ args[4] + 1 < BlockOf(tile, ArgUnit).num_classes
    /\ ret.val[1] > args[4]

(***************************************************************************)
(* C10  Linearization order.  The first physical class number of a unit is *)
(* the number of classes of all units before it in the order sub-tile ->   *)
(* capacity instance -> equivalent block, and the flat pin offset of a     *)
(* unit is the tile's root-level pin count plus the pin counts             *)
(* (pb_type->num_pins) of the blocks of all units before it in that order. *)
(***************************************************************************)
C10_LinearizationOrder ==
    /\ (op = "get_primitives_class_physical_num" /\ args[4] = 0) =>
          ret.val[1] = SumOver(tile, UnitsBefore(tile, ArgUnit), "num_classes")
    /\ op = "get_sub_block_pin_num_offset" =>
          ret.val[1] = tile.num_pins + SumOver(tile, UnitsBefore(tile, ArgUnit), "num_pins")

\* the offset of a later instance of a second block of a sub-tile
C10_Witness ==
    /\ op = "get_sub_block_pin_num_offset"
    /\ args[2] >= 1
    /\ args[3] >= 1

(***************************************************************************)
(* C11  Out-of-range rejection.  Locating or naming a physical pin index   *)
(* at or past the tile's pin count never returns: the assertion on the     *)
(* index fails, and in a build without assertions the walk over the        *)
(* sub-tiles finds no owner and ends in the fatal error.                   *)
(***************************************************************************)
C11_OutOfRangeNeverReturns ==
    (/\ op \in {"get_pin_index_for_inst", "block_type_pin_index_to_name"}
     /\ args[1] >= tile.num_pins) =>
        /\ ret = AssertFail
        /\ get_pin_index_for_inst_unchecked(tile, args[1]) = Fatal

\* the name of an index past the last pin of a tile of several sub-tiles is asked for
C11_Witness ==
    /\ op = "block_type_pin_index_to_name"
    /\ args[1] > tile.num_pins
    /\ NumSubTiles(tile) >= 2
    /\ ret.status = "assert"

\* C11 as stated: the outcome is the fatal error.
C11_OutOfRangeIsFatal ==
    (/\ op \in {"get_pin_index_for_inst", "block_type_pin_index_to_name"}
     /\ args[1] >= tile.num_pins) =>
        ret = Fatal

(***************************************************************************)
(* C12  Root-level pin round-trip.  The physical pin of a root-level       *)
(* logical pin n of block b in capacity instance k of sub-tile s, n having *)
(* an entry in the direct pin map of (b, s), translates back to n.         *)
(***************************************************************************)
C12_RootPinRoundTrip ==
    (/\ op = "get_pb_pin_physical_num"
     /\ is_root_block_pin(BlockOf(tile, ArgUnit), args[4])
     /\ args[4] \in DOMAIN tile_block_pin_directs_map(tile, BlockOf(tile, ArgUnit), args[1])) =>
        /\ ret.status = "ok"
        /\ get_pin_logical_num_from_pin_physical_num(tile, ret.val[1]) = Ok(<<args[4]>>)

(***************************************************************************)
(* C13  The flat pin count bounds every flat address.  The physical number *)
(* of any pin of any unit, root-level or not, is at least 0 and below      *)
(* get_tile_max_ptc(tile, true), which is the tile's root-level pin count  *)
(* plus the pin-graph pin counts of the blocks of all units;               *)
(* get_tile_max_ptc(tile, false) is the tile's root-level pin count.       *)
(***************************************************************************)
C13_FlatAddressBelowMaxPtc ==
    op = "get_pb_pin_physical_num" =>
        /\ ret.status = "ok"
        /\ 0 <= ret.val[1]
        /\ ret.val[1] < get_tile_max_ptc(tile, TRUE)
        /\ get_tile_max_ptc(tile, TRUE)
           = tile.num_pins + SumOver(tile, Units(tile), "num_pb_pins")
        /\ get_tile_max_ptc(tile, FALSE) = tile.num_pins

(***************************************************************************)
(* C14  Scenario CLOCK_TILE.  In the tile CLOCK_TILE (one sub-tile of      *)
(* capacity [0,3], one port clk_in of width 1, 4 pins) pin 2 is located in *)
(* capacity instance 2 at local index 0, its port is clk_in with index 0   *)
(* in the port, and its name is "CLOCK_TILE[2].clk_in[0]".                 *)
(***************************************************************************)
C14_ClockTileScenario ==
    (tile = CLOCK_TILE /\ op # "none" /\ args = <<2>>) =>
        /\ op = "get_pin_index_for_inst" =>
              /\ ret.status = "ok"
              /\ ret.val[2] = 2
              /\ ret.val[1] = 0
        /\ op = "block_type_pin_index_to_pin_inst" =>
              /\ ret.status = "ok"
              /\ ret.val[2] = 2
              /\ tile.sub_tiles[ret.val[1] + 1].ports[ret.val[3] + 1].name = "clk_in"
              /\ ret.val[4] = 0
        /\ op = "block_type_pin_index_to_name" =>
              ret = Ok(<<"CLOCK_TILE[2].clk_in[0]">>)

\* pin 2 of CLOCK_TILE has been named
C14_Witness ==
    /\ tile = CLOCK_TILE
    /\ tile.num_pins = 4
    /\ op = "block_type_pin_index_to_name"
    /\ args = <<2>>
    /\ ret.status = "ok"

(***************************************************************************)
(* C15  Scenario of two sub-tiles.  In a tile whose first sub-tile has 6   *)
(* root-level pins and whose second has 4, pin 7 is located in the second  *)
(* sub-tile, 6 pins before it, at pin 1 of the sub-tile: instance times    *)
(* pins per instance plus local index is 1, and the local index is 1 when  *)
(* an instance has more than one pin.                                      *)
(***************************************************************************)
C15_TwoSubTileScenario ==
    (tile \in SixFourTiles /\ op = "get_pin_index_for_inst" /\ args = <<7>>) =>
        /\ ret.status = "ok"
        /\ ret.val[3] = 1
        /\ PinOffsetOf(tile, ret.val[3]) = 6
        /\ LET st == SubTileAt(tile, ret.val[3])
           IN /\ ret.val[2] * PinsPerInstance(st) + ret.val[1] = 1
              /\ PinsPerInstance(st) > 1 => (ret.val[1] = 1 /\ ret.val[2] = 0)

\* pin 7 of a tile of 6 + 4 pins has been located, the second sub-tile being one instance
C15_Witness ==
    /\ tile \in SixFourTiles
    /\ tile.num_pins = 10
    /\ CapacityTotal(tile.sub_tiles[2].capacity) = 1
    /\ op = "get_pin_index_for_inst"
    /\ args = <<7>>
    /\ ret.status = "ok"

\* the ports of a tile that have the name nm: (sub-tile, port), by position from 1
PortsNamed(physical_tile, nm) ==
    UNION { { <<s, j>> : j \in { x \in 1..Len(physical_tile.sub_tiles[s].ports) :
                                   physical_tile.sub_tiles[s].ports[x].name = nm } } :
            s \in 1..NumSubTiles(physical_tile) }

\* the first of them in declared order: sub-tile by sub-tile, port by port
FirstPortNamed(physical_tile, nm) ==
    CHOOSE x \in PortsNamed(physical_tile, nm) :
        \A y \in PortsNamed(physical_tile, nm) :
            x[1] < y[1] \/ (x[1] = y[1] /\ x[2] <= y[2])

\* what find_pin gave resolves back to port x at index i, in the pin's place and in its name
ResolvesBackTo(x, nm, i) ==
    LET sub_tile == tile.sub_tiles[x[1]]
    IN /\ ret.status = "ok"
       /\ ret.val[1] \in RootPins
       /\ LET inst == block_type_pin_index_to_pin_inst(tile, ret.val[1])
          IN /\ inst.status = "ok"
             /\ inst.val[1] = sub_tile.index
             /\ inst.val[3] = sub_tile.ports[x[2]].index
             /\ inst.val[4] = i
       /\ block_type_pin_index_to_name(tile, ret.val[1])
          = Ok(<<tile.name
                 \o (IF CapacityTotal(sub_tile.capacity) > 1 THEN "[0]" ELSE "")
                 \o "." \o nm \o "[" \o ToString(i) \o "]">>)

(***************************************************************************)
(* C16  Name lookup round-trip.  For a port name declared in the tile and  *)
(* an index i inside the first port declared with that name, find_pin      *)
(* gives a root-level pin of the tile that resolves back to the sub-tile   *)
(* of that port, to that port and to index i in it, and whose name is made *)
(* of that port name and i.                                                *)
(***************************************************************************)
C16_NameRoundTripFirstPort ==
    (op = "find_pin" /\ PortsNamed(tile, args[1]) # {}) =>
        LET x == FirstPortNamed(tile, args[1])
        IN args[2] < tile.sub_tiles[x[1]].ports[x[2]].num_pins =>
              ResolvesBackTo(x, args[1], args[2])

\* a pin of a later port of a later sub-tile was looked up by name
C16_Witness ==
    /\ op = "find_pin"
    /\ PortsNamed(tile, args[1]) # {}
    /\ FirstPortNamed(tile, args[1])[1] >= 2
    /\ FirstPortNamed(tile, args[1])[2] >= 2
    /\ ret.status = "ok"

\* C16 as stated: for every port declared with the name and every index inside it.
C16_NameRoundTripEveryPort ==
    op = "find_pin" =>
        \A x \in PortsNamed(tile, args[1]) :
            args[2] < tile.sub_tiles[x[1]].ports[x[2]].num_pins =>
                ResolvesBackTo(x, args[1], args[2])

\* the first port of a sub-tile that has the name nm, by position from 1; 0 when none has
FirstPortOfSubTileNamed(sub_tile, nm) ==
    LET named == { j \in 1..Len(sub_tile.ports) : sub_tile.ports[j].name = nm }
    IN IF named = {} THEN 0 ELSE CHOOSE j \in named : \A k \in named : j <= k

(***************************************************************************)
(* C17  Resolution by name is first-match.  find_pin resolves an index     *)
(* against the first port, in declared order of sub-tiles and ports, whose *)
(* name is exactly the name asked for, whatever ports of that name follow; *)
(* when no port has the name, find_pin and find_pin_class return OPEN;     *)
(* get_port_by_name returns the first port of the sub-tile with the name,  *)
(* or nullptr.                                                             *)
(***************************************************************************)
C17_FirstMatchByName ==
    /\ op = "find_pin" =>
          IF PortsNamed(tile, args[1]) = {} THEN ret = Ok(<<OPEN>>)
          ELSE LET x == FirstPortNamed(tile, args[1])
                   port == tile.sub_tiles[x[1]].ports[x[2]]
               IN args[2] < port.num_pins =>
                     ret = Ok(<<PinOffsetOf(tile, x[1] - 1)
                                + port.absolute_first_pin_index + args[2]>>)
    /\ (op = "find_pin_class" /\ PortsNamed(tile, args[1]) = {}) => ret = Ok(<<OPEN>>)
    /\ op = "get_port_by_name" =>
          LET sub_tile == SubTileAt(tile, args[1])
              j == FirstPortOfSubTileNamed(sub_tile, args[2])
          IN ret = Ok(<<IF j = 0 THEN nullptr ELSE sub_tile.ports[j].index>>)

\* a name was resolved that a later sub-tile declares again, on a wider port
C17_Witness ==
    /\ op = "find_pin"
    /\ ret.status = "ok"
    /\ ret.val[1] # OPEN
    /\ \E y \in PortsNamed(tile, args[1]) :
          /\ y[1] > FirstPortNamed(tile, args[1])[1]
          /\ tile.sub_tiles[y[1]].ports[y[2]].num_pins
             > tile.sub_tiles[FirstPortNamed(tile, args[1])[1]].ports[
                   FirstPortNamed(tile, args[1])[2]].num_pins

\* the ports of a sub-tile whose half-open range holds the sub-tile-local pin, by position from 1
PortsHolding(sub_tile, local) ==
    { j \in 1..Len(sub_tile.ports) :
        /\ sub_tile.ports[j].absolute_first_pin_index <= local
        /\ local < sub_tile.ports[j].absolute_first_pin_index + sub_tile.ports[j].num_pins }

\* the pin's number inside its capacity instance, and the instance
LocalPinOf(physical_tile, p) ==
    LET s == OwningSubTile(physical_tile, p)
    IN (p - PinOffsetOf(physical_tile, s)) % PinsPerInstance(SubTileAt(physical_tile, s))

InstanceOf(physical_tile, p) ==
    LET s == OwningSubTile(physical_tile, p)
    IN (p - PinOffsetOf(physical_tile, s)) \div PinsPerInstance(SubTileAt(physical_tile, s))

(***************************************************************************)
(* C18  An unresolved port is a sentinel, not a failure.  When the located *)
(* sub-tile-local pin lies in no port's half-open range,                   *)
(* block_type_pin_index_to_pin_inst returns port_index = OPEN and          *)
(* pin_index_in_port = OPEN with the sub-tile and the capacity instance    *)
(* filled in, and block_type_pin_index_to_name returns the unknown-name    *)
(* text; neither ends in the fatal error.  When several ranges hold the    *)
(* pin, the first port in declared order is the one chosen.                *)
(***************************************************************************)
C18_UnresolvedPortIsSentinel ==
    (op \in {"block_type_pin_index_to_pin_inst", "block_type_pin_index_to_name"}
     /\ args[1] < tile.num_pins) =>
        LET s == OwningSubTile(tile, args[1])
            sub_tile == SubTileAt(tile, s)
            local == LocalPinOf(tile, args[1])
            inst == InstanceOf(tile, args[1])
            holding == PortsHolding(sub_tile, local)
            first == CHOOSE j \in holding : \A k \in holding : j <= k
        IN IF holding = {}
           THEN IF op = "block_type_pin_index_to_pin_inst"
                THEN ret = Ok(<<s, inst, OPEN, OPEN>>)
                ELSE ret = Ok(<<"<UNKOWN>">>)
           ELSE IF op = "block_type_pin_index_to_pin_inst"
                THEN ret = Ok(<<s, inst, sub_tile.ports[first].index,
                                local - sub_tile.ports[first].absolute_first_pin_index>>)
                ELSE ret = Ok(<<tile.name
                                \o (IF CapacityTotal(sub_tile.capacity) > 1
                                    THEN "[" \o ToString(inst) \o "]" ELSE "")
                                \o "." \o sub_tile.ports[first].name
                                \o "[" \o ToString(local - sub_tile.ports[first].absolute_first_pin_index)
                                \o "]">>)

\* a pin of a later sub-tile that the ports of that sub-tile leave out
C18_Witness ==
    /\ op = "block_type_pin_index_to_pin_inst"
    /\ args[1] < tile.num_pins
    /\ ret.status = "ok"
    /\ ret.val[1] >= 1
    /\ ret.val[3] = OPEN
    /\ ret.val[4] = OPEN
    /\ SubTileAt(tile, ret.val[1]).ports # <<>>

\* the direct pin map of (logical block, sub-tile s) has no entry for logical pin n
NoDirectEntry(physical_tile, logical_block, s, n) ==
    n \notin DOMAIN tile_block_pin_directs_map(physical_tile, logical_block, s)

\* the sub-tiles the block is a site of; those of them that span capacity location loc
SubTilesOfBlock(physical_tile, logical_block) ==
    { s \in SubTileIndices(physical_tile) : IsSiteOf(physical_tile, logical_block, s) }

SubTilesOfBlockAt(physical_tile, logical_block, loc) ==
    { s \in SubTilesOfBlock(physical_tile, logical_block) :
        /\ SubTileAt(physical_tile, s).capacity.low <= loc
        /\ loc <= SubTileAt(physical_tile, s).capacity.high }

(***************************************************************************)
(* C19  A missing direct-pin-map entry is fatal.  get_sub_tile_physical_pin*)
(* and the translations built on it (get_physical_pin,                     *)
(* get_physical_pin_at_sub_tile_location, get_pb_pin_physical_num for a    *)
(* root pin) end in the fatal architecture error whenever the direct pin   *)
(* map of the logical block and the sub-tile they translate in has no      *)
(* entry for the logical pin; no pin number is returned in its place.      *)
(***************************************************************************)
C19_MissingDirectEntryIsFatal ==
    /\ (/\ op = "get_sub_tile_physical_pin"
        /\ IsSiteOf(tile, BlockOf(tile, ArgUnit), args[3])
        /\ NoDirectEntry(tile, BlockOf(tile, ArgUnit), args[3], args[4])) => ret = Fatal
    /\ op = "get_physical_pin" =>
          LET b == BlockOf(tile, ArgUnit)
              s == CHOOSE x \in SubTilesOfBlock(tile, b) :
                        \A y \in SubTilesOfBlock(tile, b) : y <= x
          IN NoDirectEntry(tile, b, s, args[3]) => ret = Fatal
    /\ (/\ op = "get_physical_pin_at_sub_tile_location"
        /\ SubTilesOfBlockAt(tile, BlockOf(tile, ArgUnit), args[3]) # {}) =>
          LET b == BlockOf(tile, ArgUnit)
              s == CHOOSE x \in SubTilesOfBlockAt(tile, b, args[3]) :
                        \A y \in SubTilesOfBlockAt(tile, b, args[3]) : x <= y
          IN NoDirectEntry(tile, b, s, args[4]) => ret = Fatal
    /\ (/\ op = "get_pb_pin_physical_num"
        /\ is_root_block_pin(BlockOf(tile, ArgUnit), args[4])
        /\ NoDirectEntry(tile, BlockOf(tile, ArgUnit), args[1], args[4])) => ret = Fatal

\* a root pin of a block without an entry, while another pin of the block has one
C19_Witness ==
    /\ op = "get_pb_pin_physical_num"
    /\ ret = Fatal
    /\ is_root_block_pin(BlockOf(tile, ArgUnit), args[4])
    /\ NoDirectEntry(tile, BlockOf(tile, ArgUnit), args[1], args[4])
    /\ DOMAIN tile_block_pin_directs_map(tile, BlockOf(tile, ArgUnit), args[1]) # {}

\* the capacity locations that some sub-tile of the tile spans
SpannedLocations(physical_tile) ==
    UNION { SubTileAt(physical_tile, s).capacity.low..SubTileAt(physical_tile, s).capacity.high :
            s \in SubTileIndices(physical_tile) }

(***************************************************************************)
(* C20  The capacity-location translations reject invalid slots.           *)
(* get_physical_pin_from_capacity_location ends in the fatal error when    *)
(* the capacity location lies in no sub-tile's [low, high] range, and      *)
(* get_capacity_location_from_physical_pin ends in the fatal error when    *)
(* the pin is at or past the sum of the sub-tiles' num_phy_pins; neither   *)
(* returns a value then.                                                   *)
(***************************************************************************)
C20_InvalidSlotIsFatal ==
    /\ (/\ op = "get_physical_pin_from_capacity_location"
        /\ args[2] \notin SpannedLocations(tile)) => ret = Fatal
    /\ (/\ op = "get_capacity_location_from_physical_pin"
        /\ args[1] >= PinOffsetOf(tile, NumSubTiles(tile))) => ret = Fatal

\* a location just past the last sub-tile of a tile of several sub-tiles was asked for
C20_Witness ==
    /\ op = "get_physical_pin_from_capacity_location"
    /\ NumSubTiles(tile) >= 2
    /\ args[2] = tile.sub_tiles[NumSubTiles(tile)].capacity.high + 1
    /\ args[1] >= 1
    /\ ret = Fatal

(***************************************************************************)
(* C21  The compatibility predicates.  is_sub_tile_compatible(tile, block, *)
(* slot) is true exactly when one sub-tile of the tile both lists the      *)
(* block among its equivalent sites and has the slot in its capacity       *)
(* range, and the tile is one of block.equivalent_tiles;                   *)
(* is_tile_compatible(tile, block) is true exactly when the tile is one of *)
(* block.equivalent_tiles.  A block listed in one sub-tile and a slot in   *)
(* range only of another sub-tile gives false.                             *)
(***************************************************************************)
C21_Compatibility ==
    /\ op = "is_tile_compatible" =>
          ret = Ok(<<\E i \in DOMAIN args[1].equivalent_tiles :
                        args[1].equivalent_tiles[i] = tile.name>>)
    /\ op = "is_sub_tile_compatible" =>
          ret = Ok(<<
             /\ \E s \in SubTileIndices(tile) :
                   /\ \E e \in DOMAIN SubTileAt(tile, s).equivalent_sites :
                         SubTileAt(tile, s).equivalent_sites[e] = args[1]
                   /\ SubTileAt(tile, s).capacity.low <= args[2]
                   /\ args[2] <= SubTileAt(tile, s).capacity.high
             /\ \E i \in DOMAIN args[1].equivalent_tiles :
                   args[1].equivalent_tiles[i] = tile.name >>)

\* the block is listed in one sub-tile, the slot lies in another: the answer is false
C21_Witness ==
    /\ op = "is_sub_tile_compatible"
    /\ ret = Ok(<<FALSE>>)
    /\ args[1] \in ListedBlocks
    /\ \E s \in SubTileIndices(tile) :
          /\ SubTileAt(tile, s).capacity.low <= args[2]
          /\ args[2] <= SubTileAt(tile, s).capacity.high

\* where a root-level pin is: (sub-tile, capacity instance, port), all 0-based, and its index in the port
GroupOf(physical_tile, p) ==
    LET s == OwningSubTile(physical_tile, p)
        holding == PortsHolding(SubTileAt(physical_tile, s), LocalPinOf(physical_tile, p))
    IN <<s, InstanceOf(physical_tile, p), (CHOOSE j \in holding : \A k \in holding : j <= k) - 1>>

IndexInPortOf(physical_tile, p) ==
    LET g == GroupOf(physical_tile, p)
    IN LocalPinOf(physical_tile, p)
       - SubTileAt(physical_tile, g[1]).ports[g[3] + 1].absolute_first_pin_index

\* the groups a class has pins in; the positions of the class's pin list that fall in group g
GroupsOfClass(physical_tile, class) ==
    { GroupOf(physical_tile, class.pinlist[q]) : q \in 1..class.num_pins }

MembersIn(physical_tile, class, g) ==
    { q \in 1..class.num_pins : GroupOf(physical_tile, class.pinlist[q]) = g }

IndicesIn(physical_tile, class, g) ==
    { IndexInPortOf(physical_tile, class.pinlist[q]) : q \in MembersIn(physical_tile, class, g) }

Lowest(S) == CHOOSE x \in S : \A y \in S : x <= y
Highest(S) == CHOOSE x \in S : \A y \in S : y <= x

\* the pins of the class in group g are a run of consecutive indices, none listed twice
IsRun(physical_tile, class, g) ==
    LET idx == IndicesIn(physical_tile, class, g)
    IN /\ Cardinality(MembersIn(physical_tile, class, g)) = Cardinality(idx)
       /\ idx = Lowest(idx)..Highest(idx)

RangeNameOf(physical_tile, class, g) ==
    LET idx == IndicesIn(physical_tile, class, g)
    IN physical_tile.name \o "[" \o ToString(g[2]) \o "]."
       \o SubTileAt(physical_tile, g[1]).ports[g[3] + 1].name
       \o "[" \o ToString(Lowest(idx))
       \o (IF Lowest(idx) = Highest(idx) THEN "" ELSE ":" \o ToString(Highest(idx)))
       \o "]"

(***************************************************************************)
(* C22  Contiguity is verified when a class is named.                      *)
(* block_type_class_index_to_pin_names(tile, class) fails an assertion     *)
(* whenever, for some (sub-tile, capacity instance, port), the pins of the *)
(* class in that port are not a run of consecutive pin_index_in_port       *)
(* values (a gap or a duplicate); when every such group is a run it        *)
(* returns one name per group, over the range from the lowest to the       *)
(* highest index of the group.                                             *)
(***************************************************************************)
C22_ContiguityVerified ==
    (op = "block_type_class_index_to_pin_names" /\ args[1] < Len(tile.class_inf)) =>
        LET class == tile.class_inf[args[1] + 1]
            groups == GroupsOfClass(tile, class)
        IN IF \E g \in groups : ~IsRun(tile, class, g)
           THEN ret = AssertFail
           ELSE /\ ret.status = "ok"
                /\ Len(ret.val) = Cardinality(groups)
                /\ { ret.val[i] : i \in 1..Len(ret.val) }
                   = { RangeNameOf(tile, class, g) : g \in groups }

\* a class with a gap in a port was rejected
C22_Witness ==
    /\ op = "block_type_class_index_to_pin_names"
    /\ ret = AssertFail
    /\ args[1] < Len(tile.class_inf)
    /\ \E g \in GroupsOfClass(tile, tile.class_inf[args[1] + 1]) :
          Cardinality(IndicesIn(tile, tile.class_inf[args[1] + 1], g))
          = Cardinality(MembersIn(tile, tile.class_inf[args[1] + 1], g))

(***************************************************************************)
(* C30  The two printers of pin names agree.  For a class of exactly one   *)
(* pin p whose port resolves, block_type_class_index_to_pin_names(tile,    *)
(* class) returns the single name block_type_pin_index_to_name(tile, p)    *)
(* returns, in sub-tiles of capacity 1 as in sub-tiles of greater          *)
(* capacity: same "[instance]" part or none, same port, same index.        *)
(***************************************************************************)
C30_PrintersAgree ==
    (/\ op = "block_type_class_index_to_pin_names"
     /\ args[1] < Len(tile.class_inf)
     /\ tile.class_inf[args[1] + 1].num_pins = 1) =>
        /\ ret.status = "ok"
        /\ Len(ret.val) = 1
        /\ block_type_pin_index_to_name(tile, tile.class_inf[args[1] + 1].pinlist[1])
           = Ok(<<ret.val[1]>>)

AloneOutcome(f) ==
    IF f.fn = "get_pin_index_for_inst" THEN get_pin_index_for_inst(tile, f.a[1])
    ELSE Ok(<<get_primitives_class_physical_num(tile, f.a[1], BlockOf(tile, f.a), f.a[3], f.a[4])>>)

(***************************************************************************)
(* C24  Concurrent readers.  When any number of threads are in the         *)
(* translators at the same time on one registry, under every interleaving  *)
(* of their steps each call returns the value, or ends in the fatal        *)
(* outcome, that it returns when it runs alone: all a call writes is its   *)
(* own local accumulators.                                                 *)
(***************************************************************************)
C24_ConcurrentReaders ==
    \A t \in 1..MaxThreads :
        threads[t].pc = "done" => threads[t].ret = AloneOutcome(threads[t])

\* a thread is done with a pin of a later sub-tile while another is inside its loop
C24_Witness ==
    \E t, u \in 1..MaxThreads :
        /\ t # u
        /\ threads[t].pc = "done"
        /\ threads[t].fn = "get_pin_index_for_inst"
        /\ threads[t].ret.status = "ok"
        /\ threads[t].ret.val[3] >= 1
        /\ threads[u].pc = "loop"
        /\ threads[u].l[1] >= 2

(***************************************************************************)
(* C25  is_opin(ipin, tile) returns false for every pin index that is not  *)
(* a top-level pin of the tile, that is for every ipin >= tile.num_pins,   *)
(* ipin = tile.num_pins included, and reads pin_class only inside          *)
(* [0, num_pins); for a top-level pin it returns true exactly when the     *)
(* class of the pin is a DRIVER.                                           *)
(***************************************************************************)
C25_IsOpin ==
    op = "is_opin" =>
        IF args[1] >= tile.num_pins THEN ret = Ok(<<FALSE>>)
        ELSE ret = Ok(<<tile.class_inf[tile.pin_class[args[1] + 1] + 1].type = "DRIVER">>)

\* the unit (sub-tile s, block b, capacity instance k) has a place in the tile
UnitExists(physical_tile, s, b, k) ==
    /\ s < NumSubTiles(physical_tile)
    /\ \E e \in DOMAIN SubTileAt(physical_tile, s).equivalent_sites :
          SubTileAt(physical_tile, s).equivalent_sites[e] = b
    /\ k < CapacityTotal(SubTileAt(physical_tile, s).capacity)

\* the primitive classes of all units of the tile
TotalClasses(physical_tile) == SumOver(physical_tile, Units(physical_tile), "num_classes")

(***************************************************************************)
(* C26  The class inverse queries on a number of no class.  For a physical *)
(* class number c < 0 or c >= get_tile_num_primitive_classes(tile),        *)
(* get_sub_tile_from_class_physical_num returns nullptr,                   *)
(* get_sub_tile_cap_from_class_physical_num returns -1,                    *)
(* get_logical_block_from_class_physical_num returns nullptr and           *)
(* get_class_logical_num_from_class_physical_num ends in an assertion      *)
(* failure and returns no logical class number;                            *)
(* get_primitives_class_physical_num returns -1 when the (sub-tile, block, *)
(* capacity instance) unit it is given does not exist in the tile.         *)
(***************************************************************************)
C26_ClassNumberOfNoClass ==
    /\ (op = "get_sub_tile_from_class_physical_num"
        /\ (args[1] < 0 \/ args[1] >= TotalClasses(tile))) => ret = Ok(<<nullptr>>)
    /\ (op = "get_sub_tile_cap_from_class_physical_num"
        /\ (args[1] < 0 \/ args[1] >= TotalClasses(tile))) => ret = Ok(<<-1>>)
    /\ (op = "get_logical_block_from_class_physical_num"
        /\ (args[1] < 0 \/ args[1] >= TotalClasses(tile))) => ret = OkBlock(NoBlock)
    /\ (op = "get_class_logical_num_from_class_physical_num"
        /\ (args[1] < 0 \/ args[1] >= TotalClasses(tile))) => ret = AssertFail
    /\ (op = "get_primitives_class_physical_num"
        /\ ~UnitExists(tile, args[1], args[2], args[3])) => ret = Ok(<<-1>>)

\* a block of the tile was asked for in a sub-tile that does not list it
C26_Witness ==
    /\ op = "get_primitives_class_physical_num"
    /\ ret = Ok(<<-1>>)
    /\ args[1] < NumSubTiles(tile)
    /\ args[2] \in BlocksOfTile
    /\ args[3] < CapacityTotal(SubTileAt(tile, args[1]).capacity)
    /\ TotalClasses(tile) >= 2

(***************************************************************************)
(* C27  The primitive class map of a tile is one-to-one onto the flat      *)
(* class numbers.  The keys of get_tile_primitive_classes_map(tile) are    *)
(* exactly 0 .. get_tile_num_primitive_classes(tile) - 1, no two           *)
(* (sub-tile, capacity instance, block, logical class) entries have the    *)
(* same key, and the value under the key c is the class                    *)
(* primitive_class_inf[n] of the block b, for the block b and the logical  *)
(* class number n that the inverse queries return for c.                   *)
(***************************************************************************)
C27_ClassMapBijection ==
    /\ op = "get_tile_num_primitive_classes" => ret = Ok(<<TotalClasses(tile)>>)
    /\ op = "get_tile_primitive_classes_map" =>
          /\ ret.status = "ok"
          /\ DOMAIN ret.val = 0..(get_tile_num_primitive_classes(tile) - 1)
          /\ Cardinality(DOMAIN ret.val) = TotalClasses(tile)
          /\ \A c \in DOMAIN ret.val :
                /\ get_logical_block_from_class_physical_num(tile, c) = ret.val[c][1]
                /\ get_class_logical_num_from_class_physical_num(tile, c) = Ok(<<ret.val[c][2]>>)

\* the map of a tile with two sub-tiles, one of several instances, and classes in each
C27_Witness ==
    /\ op = "get_tile_primitive_classes_map"
    /\ ret.status = "ok"
    /\ NumSubTiles(tile) >= 2
    /\ \E s \in SubTileIndices(tile) : CapacityTotal(SubTileAt(tile, s).capacity) >= 2
    /\ \A s \in SubTileIndices(tile) :
          \E e \in DOMAIN SubTileAt(tile, s).equivalent_sites :
              SubTileAt(tile, s).equivalent_sites[e].num_classes >= 1

(***************************************************************************)
(* C28  The two forward translations of a root pin agree.  For a sub-tile  *)
(* s, a logical block b that is an equivalent site of s and of no other    *)
(* sub-tile, a capacity location c in the [low, high] of s and a root      *)
(* logical pin n that has an entry in the direct pin map,                  *)
(* get_physical_pin_at_sub_tile_location(tile, b, c, n), which adds        *)
(* relative_capacity * the pins of an instance after the look-up in        *)
(* sub_tile_to_tile_pin_indices, returns the physical pin that             *)
(* get_root_pb_pin_physical_num(tile, s, b, c - low, n), which adds it     *)
(* before the look-up, returns.                                            *)
(***************************************************************************)
C28_RootPinTranslationsAgree ==
    op = "get_physical_pin_at_sub_tile_location" =>
        LET b == BlockOf(tile, ArgUnit)
        IN \A s \in SubTileIndices(tile) :
              (/\ SubTilesOfBlock(tile, b) = {s}
               /\ IsInRange(SubTileAt(tile, s).capacity, args[3])
               /\ ~NoDirectEntry(tile, b, s, args[4]))
              => /\ ret.status = "ok"
                 /\ ret = get_root_pb_pin_physical_num(tile, s, b,
                              args[3] - SubTileAt(tile, s).capacity.low, args[4])

\* a block of the second sub-tile only, placed in an instance past the sub-tile's first
C28_Witness ==
    /\ op = "get_physical_pin_at_sub_tile_location"
    /\ ret.status = "ok"
    /\ SubTilesOfBlock(tile, BlockOf(tile, ArgUnit)) = {1}
    /\ args[3] > SubTileAt(tile, 1).capacity.low
    /\ args[3] <= SubTileAt(tile, 1).capacity.high
    /\ ~NoDirectEntry(tile, BlockOf(tile, ArgUnit), 1, args[4])

\* the least of a non-empty set of sub-tile indices
FirstOf(S) == CHOOSE x \in S : \A y \in S : x <= y

(***************************************************************************)
(* C29  The sub-tile selected for a logical block.  When a block is an     *)
(* equivalent site of several sub-tiles of the tile,                       *)
(* get_logical_block_physical_sub_tile_index(tile, block) and              *)
(* get_logical_block_physical_sub_tile_index(tile, block, slot) both       *)
(* return the first such sub-tile in declared order, the second among the  *)
(* sub-tiles whose capacity range holds slot; both end in the fatal error, *)
(* and never return OPEN, when no sub-tile lists the block (or none whose  *)
(* range holds slot).                                                      *)
(***************************************************************************)
C29_FirstSubTileSelected ==
    /\ op = "get_logical_block_physical_sub_tile_index" =>
          IF SubTilesOfBlock(tile, args[1]) = {} THEN ret = Fatal
          ELSE ret = Ok(<<FirstOf(SubTilesOfBlock(tile, args[1]))>>)
    /\ op = "get_logical_block_physical_sub_tile_index_at" =>
          IF SubTilesOfBlockAt(tile, args[1], args[2]) = {} THEN ret = Fatal
          ELSE ret = Ok(<<FirstOf(SubTilesOfBlockAt(tile, args[1], args[2]))>>)

====
